---- MODULE Spec2Model ----
(***************************************************************************)
(* BitChart (load28/bit-trade): the shared data store (SharedDataManager), *)
(* the worker bridges, the render/compute workers' message handlers and    *)
(* the chart controller's initialisation, as state machines.               *)
(***************************************************************************)
EXTENDS Integers, Sequences, FiniteSets, TLC

(***************************************************************************)
(* Bounds of the model and program constants.                              *)
(***************************************************************************)
\* number of distinct candles the callers choose from
NBars == 2
\* largest capacity a store of the component specification is configured with
CapLimit == 3
\* src/unnamed/part_016:198
FLOATS_PER_CANDLE == 6
\* largest integer up to which every integer is a float32 (2^24)
F32_EXACT == 16777216

\* what a JavaScript typed array yields for a read past its end (undefined)
Undefined == -1

Min(a, b) == IF a < b THEN a ELSE b
Max(a, b) == IF a > b THEN a ELSE b

(***************************************************************************)
(* The OHLCV record (src/unnamed/part_015:7-20) and the callers' candles.  *)
(* Candle(1) is the first bar of the spec's round-trip scenario.  The      *)
(* candles are bars whose six scalars are float32 values; the later ones   *)
(* carry a time above 2^24, where not every integer is one.                *)
(***************************************************************************)
Candle(k) ==
    [time |-> IF k = 1 THEN 1 ELSE F32_EXACT + 2 * k,
     open |-> 10 * k, high |-> 10 * k + 2, low |-> 10 * k - 1,
     close |-> 10 * k + 1, volume |-> k + 4]

Candles == {Candle(k) : k \in 1..NBars}

\* the six scalars of a candle in the order the store lays them out
Field(candle, j) ==
    CASE j = 0 -> candle.time
      [] j = 1 -> candle.open
      [] j = 2 -> candle.high
      [] j = 3 -> candle.low
      [] j = 4 -> candle.close
      [] OTHER -> candle.volume

\* every argument array of at most n candles
SeqsUpTo(n) == UNION {[1..m -> Candles] : m \in 0..n}

(***************************************************************************)
(* Float32Array element access.  A store converts the number to float32    *)
(* (round to nearest, ties to even); a store past the end is ignored and a *)
(* read past the end yields undefined.  Indices are 0-based as in the code.*)
(***************************************************************************)
RECURSIVE Ulp(_, _)
Ulp(x, step) == IF x < 2 * F32_EXACT * step THEN step ELSE Ulp(x, 2 * step)

fround(x) ==
    IF x <= F32_EXACT THEN x
    ELSE LET u    == 2 * Ulp(x, 1)
             down == (x \div u) * u
             rest == x - down
         IN  IF 2 * rest < u THEN down
             ELSE IF 2 * rest > u THEN down + u
             ELSE IF (down \div u) % 2 = 0 THEN down ELSE down + u

Float32Get(view, index) ==
    IF index >= 0 /\ index < Len(view) THEN view[index + 1] ELSE Undefined

\* the six element stores of one candle at float offset `offset`
StoreCandle(view, offset, candle) ==
    [n \in 1..Len(view) |->
        IF n - 1 >= offset /\ n - 1 < offset + FLOATS_PER_CANDLE
        THEN fround(Field(candle, n - 1 - offset))
        ELSE view[n]]

\* the candle-by-candle store loop: candles[i] goes to slot slots[i]
RECURSIVE StoreLoop(_, _, _, _)
StoreLoop(view, candles, slots, i) ==
    IF i > Len(candles) THEN view
    ELSE StoreLoop(StoreCandle(view, slots[i] * FLOATS_PER_CANDLE, candles[i]),
                   candles, slots, i + 1)

\* the OHLCV object read back from the six floats at `offset`
LoadCandle(view, offset) ==
    [time   |-> Float32Get(view, offset),
     open   |-> Float32Get(view, offset + 1),
     high   |-> Float32Get(view, offset + 2),
     low    |-> Float32Get(view, offset + 3),
     close  |-> Float32Get(view, offset + 4),
     volume |-> Float32Get(view, offset + 5)]

(***************************************************************************)
(* SharedDataManager (src/unnamed/part_009).  A store is a record:         *)
(*   supports       the static supportsSharedArrayBuffer                   *)
(*   ringBufferMode, capacity, maxCapacity   the fields of the same name   *)
(*   buffer         whether `buffer` is non-null                           *)
(*   allocated      (history) whether the last call made a new             *)
(*                  SharedArrayBuffer: `buffer` is then another object     *)
(*                  than before the call                                   *)
(*   metaView       whether metaView is non-null; count and head are the   *)
(*                  header words DATA_COUNT and HEAD_INDEX                 *)
(*   dataView       "null", "shared" (a view of `buffer`) or "local" (a    *)
(*                  view of a plain ArrayBuffer); data are its floats      *)
(*   event          the type of the DataChangeEvent the last call sent to  *)
(*                  the listeners, "none" when it sent none                *)
(*   newest         (history) the slot of the candle written last, -1 when *)
(*                  no candle is stored                                    *)
(***************************************************************************)
Zeros(n) == [i \in 1..n |-> 0]

allocateBuffer(s, capacity) ==
    [s EXCEPT !.buffer = TRUE, !.allocated = TRUE, !.metaView = TRUE, !.dataView = "shared",
              !.data = Zeros(capacity * FLOATS_PER_CANDLE),
              !.count = 0, !.head = 0, !.capacity = capacity]

SharedDataManager(options, supportsSharedArrayBuffer) ==
    LET s == [supports |-> supportsSharedArrayBuffer,
              ringBufferMode |-> options.ringBufferMode,
              capacity |-> options.initialCapacity,
              maxCapacity |-> options.maxCapacity,
              buffer |-> FALSE, allocated |-> FALSE, metaView |-> FALSE, dataView |-> "null",
              data |-> <<>>, count |-> 0, head |-> 0,
              event |-> "none", newest |-> -1]
    IN  IF supportsSharedArrayBuffer THEN allocateBuffer(s, s.capacity) ELSE s

getDataCount(s) == IF ~s.metaView THEN 0 ELSE s.count

getCapacity(s) == s.capacity

expandBuffer(s, newCapacity) ==
    IF ~s.supports THEN s
    ELSE LET oldDataView == s.data
             oldCount    == getDataCount(s)
             t           == allocateBuffer(s, newCapacity)
             copyLength  == Min(oldCount * FLOATS_PER_CANDLE, Len(t.data))
             copied      == Min(copyLength, Len(oldDataView))
         IN  IF s.dataView # "null"
             THEN [t EXCEPT !.data = [n \in 1..Len(t.data) |->
                                        IF n <= copied THEN oldDataView[n] ELSE t.data[n]],
                            !.count = oldCount]
             ELSE t

setDataFallback(s, data) ==
    [s EXCEPT !.dataView = "local",
              !.data = StoreLoop(Zeros(Len(data) * FLOATS_PER_CANDLE), data,
                                 [i \in 1..Len(data) |-> i - 1], 1),
              !.capacity = Len(data),
              !.event = "replace",
              !.newest = Len(data) - 1]

setData(s0, data) ==
    LET s == [s0 EXCEPT !.event = "none", !.allocated = FALSE]
        count == Len(data)
        e == IF count > s.capacity
             THEN expandBuffer(s, Min(Max(count, s.capacity * 2), s.maxCapacity))
             ELSE s
    IN  IF e.dataView = "null" \/ ~e.metaView
        THEN setDataFallback(e, data)
        ELSE [e EXCEPT !.data = StoreLoop(e.data, data, [i \in 1..count |-> i - 1], 1),
                       !.count = count,
                       !.head = 0,
                       !.event = "replace",
                       !.newest = count - 1]

appendDataRingBuffer(s, candles) ==
    IF s.dataView = "null" \/ ~s.metaView THEN s
    ELSE LET headIndex    == s.head
             slots        == [i \in 1..Len(candles) |-> (headIndex + i - 1) % s.capacity]
             newHeadIndex == (headIndex + Len(candles)) % s.capacity
             currentCount == getDataCount(s)
             newCount     == Min(currentCount + Len(candles), s.capacity)
         IN  [s EXCEPT !.data = StoreLoop(s.data, candles, slots, 1),
                       !.head = newHeadIndex,
                       !.count = newCount,
                       !.newest = slots[Len(candles)]]

\* the tail of appendData, after the capacity has been dealt with
AppendStore(s, candles, currentCount, newCount) ==
    IF s.dataView = "null" \/ ~s.metaView THEN s
    ELSE [s EXCEPT !.data = StoreLoop(s.data, candles,
                                [i \in 1..Len(candles) |-> currentCount + i - 1], 1),
                   !.count = newCount,
                   !.event = "append",
                   !.newest = newCount - 1]

appendData(s0, candles) ==
    LET s == [s0 EXCEPT !.event = "none", !.allocated = FALSE]
        currentCount == getDataCount(s)
        newCount     == currentCount + Len(candles)
        newCapacity  == Min(Max(newCount, s.capacity * 2), s.maxCapacity)
    IN  IF Len(candles) = 0 THEN s
        ELSE IF newCount > s.capacity
        THEN IF s.ringBufferMode THEN appendDataRingBuffer(s, candles)
             ELSE IF newCapacity <= s.capacity THEN s
             ELSE AppendStore(expandBuffer(s, newCapacity), candles, currentCount, newCount)
        ELSE AppendStore(s, candles, currentCount, newCount)

updateLastCandle(s0, candle) ==
    LET s == [s0 EXCEPT !.event = "none", !.allocated = FALSE]
        count == getDataCount(s)
    IN  IF count = 0 \/ s.dataView = "null" \/ ~s.metaView THEN s
        ELSE [s EXCEPT !.data = StoreCandle(s.data, (count - 1) * FLOATS_PER_CANDLE, candle),
                       !.event = "update"]

getData(s) ==
    LET count == getDataCount(s)
    IN  IF s.dataView = "null" THEN <<>>
        ELSE [i \in 1..count |-> LoadCandle(s.data, (i - 1) * FLOATS_PER_CANDLE)]

getDataBuffer(s) ==
    IF s.dataView = "null" THEN <<>>
    ELSE SubSeq(s.data, 1, Min(getDataCount(s) * FLOATS_PER_CANDLE, Len(s.data)))

clear(s) ==
    IF s.metaView
    THEN [s EXCEPT !.count = 0, !.head = 0, !.event = "clear", !.allocated = FALSE,
                   !.newest = -1]
    ELSE [s EXCEPT !.event = "clear", !.allocated = FALSE, !.newest = -1]

destroy(s) ==
    [s EXCEPT !.buffer = FALSE, !.metaView = FALSE, !.dataView = "null", !.data = <<>>,
              !.event = "none", !.allocated = FALSE]

isSharedBufferSupported(s) == s.supports

(***************************************************************************)
(* The store as a component: one store, built with any options, where      *)
(* SharedArrayBuffer is available or where it is not, and any sequence of  *)
(* calls of its public methods.                                            *)
(*   lastOp  (history) the call made last and its argument                 *)
(*   fb      the twin of SpecTwin below, not built (NoStore) here          *)
(*   writer, reader   the two threads of SpecReader below, idle here       *)
(*   controller, bridge, worker, retired, env, req   the chart of          *)
(*           SpecChart below, absent (NoChart) here                        *)
(*   rt      the realtime handler of SpecRealtime below with its sockets   *)
(*           and timers, absent (NoFeed) here                              *)
(***************************************************************************)
VARIABLES st, lastOp, fb, writer, reader, controller, bridge, worker, retired, env, req,
          rt

vars == <<st, lastOp, fb, writer, reader, controller, bridge, worker, retired, env, req,
          rt>>

chartVars == <<controller, bridge, worker, retired, env, req, rt>>

\* a bridge that has sent no request
NoRequests == [requestIdCounter |-> 0, pendingRequests |-> {}, timers |-> {},
               settled |-> <<>>]

NoFeed == [state |-> "absent"]

NoController ==
    /\ controller = [pc |-> "absent"]
    /\ bridge = <<>>
    /\ worker = <<>>
    /\ retired = <<>>
    /\ env = <<>>
    /\ req = NoRequests

NoChart ==
    /\ NoController
    /\ rt = NoFeed

NoStore == [supports |-> FALSE]

\* the controller thread between two calls of the store
WriterIdle == [pc |-> "idle", stores |-> <<>>, meta |-> <<>>]
\* a worker that is not reading the shared region
ReaderIdle == [pc |-> "idle", count |-> 0, i |-> 0, bar |-> <<>>]

threadVars == <<writer, reader>>

Options ==
    {[initialCapacity |-> c, maxCapacity |-> m, ringBufferMode |-> r] :
        c \in 1..CapLimit, m \in 1..CapLimit, r \in BOOLEAN}

\* the options a store is built with: the initial capacity within the maximum
SaneOptions == {o \in Options : o.initialCapacity <= o.maxCapacity}

\* the arguments the callers pass: up to one candle more than any capacity
Args == SeqsUpTo(CapLimit + 1)

LastN(seq, n) ==
    IF Len(seq) <= n THEN seq ELSE SubSeq(seq, Len(seq) - n + 1, Len(seq))

Init ==
    /\ \E o \in SaneOptions, supportsSharedArrayBuffer \in BOOLEAN :
          st = SharedDataManager(o, supportsSharedArrayBuffer)
    /\ lastOp = [op |-> "new", arg |-> <<>>]
    /\ fb = NoStore
    /\ writer = WriterIdle
    /\ reader = ReaderIdle
    /\ NoChart

SetData(data) ==
    /\ st' = setData(st, data)
    /\ lastOp' = [op |-> "setData", arg |-> data]
    /\ UNCHANGED <<fb, threadVars, chartVars>>

AppendData(candles) ==
    /\ st' = appendData(st, candles)
    /\ lastOp' = [op |-> "appendData", arg |-> candles]
    /\ UNCHANGED <<fb, threadVars, chartVars>>

UpdateLastCandle(candle) ==
    /\ st' = updateLastCandle(st, candle)
    /\ lastOp' = [op |-> "updateLastCandle", arg |-> <<candle>>]
    /\ UNCHANGED <<fb, threadVars, chartVars>>

Clear ==
    /\ st' = clear(st)
    /\ lastOp' = [op |-> "clear", arg |-> <<>>]
    /\ UNCHANGED <<fb, threadVars, chartVars>>

Next ==
    \/ \E data \in Args : SetData(data)
    \/ \E candles \in Args : AppendData(candles)
    \/ \E candle \in Candles : UpdateLastCandle(candle)
    \/ Clear

Spec == Init /\ [][Next]_vars

(***************************************************************************)
(* Claims about the store (checked under Spec).                            *)
(***************************************************************************)
\* the call a step makes, read from the step's second state
Called(op) == lastOp'.op = op
Arg == lastOp'.arg

\* a store that has its header and whose count is within its capacity
WithinCapacity(s) == s.metaView /\ getDataCount(s) <= s.capacity

\* C2: in ring mode snapshot() (getData) returns the newest
\* min(bars written since the last setAll/clear, capacity) bars, oldest first.
\* Stated call by call for a store with shared memory: setAll(bars) leaves
\* snapshot() = bars, and an append leaves the previous snapshot followed by
\* the appended bars, cut to the newest `capacity` of them; with capacity 3,
\* setAll([A,B,C]) then append([D]) must give [B,C,D].
C2_RingSnapshotNewestFirstOut ==
    [][(st.supports /\ st.ringBufferMode) =>
          /\ (Called("setData") /\ Len(Arg) <= st.maxCapacity) => getData(st') = Arg
          /\ (Called("appendData") /\ WithinCapacity(st)) =>
                 getData(st') = LastN(getData(st) \o Arg, st'.capacity)]_vars

\* C6: after setAll(bars) with bars no longer than the capacity cap, whatever
\* came before, count = bars.length, head = 0 and snapshot() = bars.
C6_SetAllRoundTrip ==
    [][(Called("setData") /\ Len(Arg) <= st.maxCapacity) =>
          /\ getDataCount(st') = Len(Arg)
          /\ st'.head = 0
          /\ getData(st') = Arg]_vars

\* C6 for the stores built where SharedArrayBuffer is available.
C6_SetAllRoundTripShared ==
    [][(st.supports /\ Called("setData") /\ Len(Arg) <= st.maxCapacity) =>
          /\ getDataCount(st') = Len(Arg)
          /\ st'.head = 0
          /\ getData(st') = Arg]_vars

\* C7: the header count never exceeds the capacity and the capacity never
\* exceeds the configured maximum capacity.
C7_CountWithinCapacityWithinMax ==
    st.metaView => (getDataCount(st) <= st.capacity /\ st.capacity <= st.maxCapacity)

\* C8: in growable mode an append with count + bars.length > maximum capacity
\* changes nothing: count, head, capacity and every stored bar stay as they were.
C8_OversizeAppendDropped ==
    [][(~st.ringBufferMode /\ Called("appendData")
          /\ getDataCount(st) + Len(Arg) > st.maxCapacity) =>
          /\ st'.count = st.count
          /\ st'.head = st.head
          /\ st'.capacity = st.capacity
          /\ st'.data = st.data]_vars

\* C9: on a non-empty store updateLast(bar) overwrites exactly the last logical
\* bar, the one written most recently: that bar's slot holds `bar` afterwards,
\* snapshot() is the previous snapshot with its final element replaced by `bar`,
\* every other slot, count and head are unchanged.  Stated for the stores whose
\* count is within their capacity.
C9_UpdateLastOverwritesNewest ==
    [][(Called("updateLastCandle") /\ WithinCapacity(st) /\ getDataCount(st) > 0) =>
          /\ LoadCandle(st'.data, st.newest * FLOATS_PER_CANDLE) = Arg[1]
          /\ getData(st') = [getData(st) EXCEPT ![getDataCount(st)] = Arg[1]]
          /\ \A n \in 1..Len(st.data) :
                (n - 1) \div FLOATS_PER_CANDLE # st.newest => st'.data[n] = st.data[n]
          /\ st'.count = st.count
          /\ st'.head = st.head]_vars

\* C10: in growable mode an append with count + bars.length <= maximum capacity
\* leaves snapshot() = previous snapshot followed by bars and count increased
\* by bars.length, also when the buffer has to grow.
C10_GrowableAppend ==
    [][(~st.ringBufferMode /\ Called("appendData")
          /\ getDataCount(st) + Len(Arg) <= st.maxCapacity) =>
          /\ getData(st') = getData(st) \o Arg
          /\ getDataCount(st') = getDataCount(st) + Len(Arg)]_vars

\* C10 for the stores built where SharedArrayBuffer is available.
C10_GrowableAppendShared ==
    [][(st.supports /\ ~st.ringBufferMode /\ Called("appendData")
          /\ getDataCount(st) + Len(Arg) <= st.maxCapacity) =>
          /\ getData(st') = getData(st) \o Arg
          /\ getDataCount(st') = getDataCount(st) + Len(Arg)]_vars

(***************************************************************************)
(* The store's memory under a concurrent reader.  The controller thread    *)
(* (writer) runs a call of the store one memory access at a time, in the   *)
(* order of the code: the Float32Array element stores of the copy loop,    *)
(* then the Atomics.store of the header words.  A worker thread (reader)   *)
(* holds views of the same SharedArrayBuffer, loads DATA_COUNT atomically  *)
(* and copies that many bars out of the data view, one element per step.   *)
(* The element accesses are not atomic: a racing read yields the old or    *)
(* the new element, which the interleaving of the steps covers.            *)
(* The store is built with initialCapacity = maxCapacity and setData is    *)
(* called with at most `capacity` bars, so that no call replaces the       *)
(* buffer the reader's views were made of.                                 *)
(***************************************************************************)
\* capacity of the store of SpecReader
ReaderCap == 1

\* the element stores of a copy loop: <<index in the data view, value>>
FloatStores(candles, slots) ==
    [n \in 1..(Len(candles) * FLOATS_PER_CANDLE) |->
        LET i == (n - 1) \div FLOATS_PER_CANDLE + 1
            j == (n - 1) % FLOATS_PER_CANDLE
        IN  <<slots[i] * FLOATS_PER_CANDLE + j, Field(candles[i], j)>>]

\* the memory accesses of setData(data) on a store with room for data
setDataSteps(s, data) ==
    [stores |-> FloatStores(data, [i \in 1..Len(data) |-> i - 1]),
     meta   |-> << <<"count", Len(data)>>, <<"head", 0>> >>]

appendDataRingBufferSteps(s, candles) ==
    LET headIndex == s.head
    IN  [stores |-> FloatStores(candles,
                       [i \in 1..Len(candles) |-> (headIndex + i - 1) % s.capacity]),
         meta   |-> << <<"head", (headIndex + Len(candles)) % s.capacity>>,
                       <<"count", Min(getDataCount(s) + Len(candles), s.capacity)>> >>]

appendDataSteps(s, candles) ==
    LET currentCount == getDataCount(s)
        newCount     == currentCount + Len(candles)
        newCapacity  == Min(Max(newCount, s.capacity * 2), s.maxCapacity)
    IN  IF Len(candles) = 0 THEN [stores |-> <<>>, meta |-> <<>>]
        ELSE IF newCount > s.capacity /\ s.ringBufferMode
        THEN appendDataRingBufferSteps(s, candles)
        ELSE IF newCount > s.capacity /\ newCapacity <= s.capacity
        THEN [stores |-> <<>>, meta |-> <<>>]
        ELSE [stores |-> FloatStores(candles,
                            [i \in 1..Len(candles) |-> currentCount + i - 1]),
              meta   |-> << <<"count", newCount>> >>]

updateLastCandleSteps(s, candle) ==
    LET count == getDataCount(s)
    IN  IF count = 0 THEN [stores |-> <<>>, meta |-> <<>>]
        ELSE [stores |-> FloatStores(<<candle>>, <<count - 1>>), meta |-> <<>>]

clearSteps(s) ==
    [stores |-> <<>>, meta |-> << <<"count", 0>>, <<"head", 0>> >>]

\* dataView[index] = value
Float32Set(view, index, value) ==
    IF index >= 0 /\ index < Len(view)
    THEN [view EXCEPT ![index + 1] = fround(value)]
    ELSE view

ReaderArgs == SeqsUpTo(ReaderCap)

ReaderInit ==
    /\ \E r \in BOOLEAN :
          st = SharedDataManager([initialCapacity |-> ReaderCap, maxCapacity |-> ReaderCap,
                                  ringBufferMode |-> r], TRUE)
    /\ lastOp = [op |-> "new", arg |-> <<>>]
    /\ fb = NoStore
    /\ writer = WriterIdle
    /\ reader = ReaderIdle
    /\ NoChart

\* the controller thread enters a call: the accesses the call will make
WriterBegin(op, arg, steps, result) ==
    /\ writer.pc = "idle"
    /\ lastOp' = [op |-> op, arg |-> arg]
    /\ writer' = [pc |-> "running", stores |-> steps.stores, meta |-> steps.meta,
                  result |-> result]
    /\ UNCHANGED <<st, fb, reader, chartVars>>

WriterSetData(data) ==
    /\ Len(data) <= st.capacity
    /\ WriterBegin("setData", data, setDataSteps(st, data), setData(st, data))

WriterAppendData(candles) ==
    WriterBegin("appendData", candles, appendDataSteps(st, candles), appendData(st, candles))

WriterUpdateLastCandle(candle) ==
    WriterBegin("updateLastCandle", <<candle>>, updateLastCandleSteps(st, candle),
                updateLastCandle(st, candle))

WriterClear ==
    WriterBegin("clear", <<>>, clearSteps(st), clear(st))

\* one element store of the copy loop
WriterStore ==
    /\ writer.pc = "running"
    /\ writer.stores # <<>>
    /\ st' = [st EXCEPT !.data = Float32Set(st.data, Head(writer.stores)[1],
                                            Head(writer.stores)[2])]
    /\ writer' = [writer EXCEPT !.stores = Tail(writer.stores)]
    /\ UNCHANGED <<lastOp, fb, reader, chartVars>>

\* one Atomics.store of a header word
WriterMeta ==
    /\ writer.pc = "running"
    /\ writer.stores = <<>>
    /\ writer.meta # <<>>
    /\ st' = IF Head(writer.meta)[1] = "count"
             THEN [st EXCEPT !.count = Head(writer.meta)[2]]
             ELSE [st EXCEPT !.head = Head(writer.meta)[2]]
    /\ writer' = [writer EXCEPT !.meta = Tail(writer.meta)]
    /\ UNCHANGED <<lastOp, fb, reader, chartVars>>

\* the call returns (the listeners' notification included)
WriterReturn ==
    /\ writer.pc = "running"
    /\ writer.stores = <<>>
    /\ writer.meta = <<>>
    /\ st' = [st EXCEPT !.event = writer.result.event, !.newest = writer.result.newest,
                        !.allocated = FALSE]
    /\ writer' = [pc |-> "idle", stores |-> <<>>, meta |-> <<>>, result |-> writer.result]
    /\ UNCHANGED <<lastOp, fb, reader, chartVars>>

\* the reader's Atomics.load of DATA_COUNT
ReaderLoadCount ==
    /\ reader.pc \in {"idle", "done"}
    /\ reader' = [pc |-> "copy", count |-> st.count, i |-> 0, bar |-> <<>>]
    /\ UNCHANGED <<st, lastOp, fb, writer, chartVars>>

\* one pass of the reader's copy loop: dataBuffer[i] = sharedData[offset + i],
\* offset 0; `bar` keeps the elements of the bar being copied
ReaderCopy ==
    /\ reader.pc = "copy"
    /\ IF reader.i < reader.count * FLOATS_PER_CANDLE
       THEN reader' = [reader EXCEPT
                         !.i = reader.i + 1,
                         !.bar = IF reader.i % FLOATS_PER_CANDLE = 0
                                 THEN <<Float32Get(st.data, reader.i)>>
                                 ELSE Append(reader.bar, Float32Get(st.data, reader.i))]
       ELSE reader' = [reader EXCEPT !.pc = "done"]
    /\ UNCHANGED <<st, lastOp, fb, writer, chartVars>>

ReaderNext ==
    \/ \E data \in ReaderArgs : WriterSetData(data)
    \/ \E candles \in ReaderArgs : WriterAppendData(candles)
    \/ \E candle \in Candles : WriterUpdateLastCandle(candle)
    \/ WriterClear
    \/ WriterStore
    \/ WriterMeta
    \/ WriterReturn
    \/ ReaderLoadCount
    \/ ReaderCopy

SpecReader == ReaderInit /\ [][ReaderNext]_vars

\* Run to its return, a call leaves the store as the call taken as one step does.
WriterStepsAgree ==
    (writer.pc = "idle" /\ lastOp.op # "new") => st = writer.result

\* the six elements of a bar as the data view holds them
Stored(candle) == [j \in 1..FLOATS_PER_CANDLE |-> fround(Field(candle, j - 1))]

\* C3: a reader that atomically loads count = N and then reads the first N bars
\* while the controller thread runs setAll, append or updateLast reads only
\* whole bars: every bar it has read is, in all six fields, one bar passed to a
\* write, never a mix of the fields of two bars or a slot not yet written.
C3_ReaderSeesWholeBars ==
    Len(reader.bar) = FLOATS_PER_CANDLE => \E c \in Candles : reader.bar = Stored(c)

(***************************************************************************)
(* The chart: ChartController with its data store, the render and compute  *)
(* worker bridges and the two workers.                                     *)
(*   controller  pc: "new", "awaitRender" / "awaitCompute" (init() is      *)
(*               suspended at the await of that bridge's init), "ready"    *)
(*               (init() has returned), "destroyed"; sharedBuffer is the   *)
(*               handle initWorkers took from the store (0 is null);       *)
(*               emitted are the types of the events sent to the chart's   *)
(*               listeners                                                 *)
(*   bridge[b]   exists (the controller's field is non-null), worker (the  *)
(*               bridge's worker field is non-null), state                 *)
(*   worker[w]   spawned (new Worker ran, not terminated), booted (the     *)
(*               script has run and set self.onmessage), faulted (the      *)
(*               script failed to start), inbox (messages posted to the    *)
(*               worker), outbox (messages and error events on their way   *)
(*               to the bridge), and the worker's globals                  *)
(*   retired     the data views of the SharedArrayBuffers the store has    *)
(*               replaced, oldest first; a handle h names retired[h], or   *)
(*               the store's current buffer when h = Len(retired) + 1      *)
(*   env         what the browser supports: OffscreenCanvas, WebGL 2       *)
(***************************************************************************)
Workers == {"render", "compute"}

\* stands in for initialCapacity: 10000 (src/src/chart/core/ChartController.ts:101)
ChartInitialCapacity == 1
\* stands in for maxCapacity: 1000000 (src/src/chart/core/ChartController.ts:102)
ChartMaxCapacity == 2

ChartArgs == SeqsUpTo(ChartMaxCapacity)

FreshBridge == [exists |-> FALSE, worker |-> FALSE, state |-> "idle"]

\* a number that is not whole, as a fraction
Ratio(n, d) == [num |-> n, den |-> d]

LessEq(a, b) == a.num * b.den <= b.num * a.den

(* TimeScale and PriceScale (src/unnamed/part_016): the data range and the *)
(* visible range of a scale.                                               *)
\* rightPadding = 0.05 is one part in RightPaddingParts
RightPaddingParts == 20
\* padding = 0.1 is one part in PaddingParts
PaddingParts == 10

NewTimeScale ==
    [minTime |-> 0, maxTime |-> 1, visibleMinTime |-> Ratio(0, 1),
     visibleMaxTime |-> Ratio(1, 1), timestamps |-> <<>>]

TimeScale_setTimestamps(t, timestamps) == [t EXCEPT !.timestamps = timestamps]

TimeScale_setDataRange(t, minTime, maxTime) ==
    [t EXCEPT !.minTime = minTime, !.maxTime = maxTime]

TimeScale_fitContent(t) ==
    [t EXCEPT !.visibleMinTime = Ratio(t.minTime, 1),
              !.visibleMaxTime = Ratio(RightPaddingParts * t.maxTime
                                           + (t.maxTime - t.minTime),
                                       RightPaddingParts)]

NewPriceScale ==
    [minPrice |-> 0, maxPrice |-> 1, visibleMinPrice |-> Ratio(0, 1),
     visibleMaxPrice |-> Ratio(1, 1), autoScale |-> TRUE, logScale |-> FALSE]

PriceScale_fitContent(p) ==
    LET range == p.maxPrice - p.minPrice
        low   == PaddingParts * p.minPrice - range
    IN  [p EXCEPT !.visibleMinPrice = IF low < 0 /\ p.minPrice >= 0 THEN Ratio(0, 1)
                                      ELSE Ratio(low, PaddingParts),
                  !.visibleMaxPrice = Ratio(PaddingParts * p.maxPrice + range,
                                            PaddingParts)]

PriceScale_setDataRange(p, minPrice, maxPrice) ==
    LET q == [p EXCEPT !.minPrice = minPrice, !.maxPrice = maxPrice]
    IN  IF q.autoScale THEN PriceScale_fitContent(q) ELSE q

\* Math.min(...values) and Math.max(...values) of a non-empty array
MinOf(values) == CHOOSE v \in values : \A u \in values : v <= u

MaxOf(values) == CHOOSE v \in values : \A u \in values : v >= u

\* the viewport a render worker starts with
DefaultViewport ==
    [timeRange   |-> [from |-> Ratio(0, 1), to |-> Ratio(1, 1)],
     priceRange  |-> [min |-> Ratio(0, 1), max |-> Ratio(1, 1)],
     volumeRange |-> [min |-> 0, max |-> 1]]

\* lastData is (history) the call whose data message the worker handled last
FreshWorker ==
    [spawned |-> FALSE, booted |-> FALSE, faulted |-> FALSE,
     inbox |-> <<>>, outbox |-> <<>>,
     sharedData |-> 0, dataBuffer |-> <<>>, dataCount |-> 0, isInitialized |-> FALSE,
     viewport |-> DefaultViewport, lastData |-> <<>>]

\* SharedDataManager.getSharedBuffer(), as a handle
getSharedBuffer == IF st.buffer THEN Len(retired) + 1 ELSE 0

\* the Float32Array a worker makes over the buffer of a handle
SharedView(handle) ==
    IF handle = Len(retired) + 1 THEN st.data ELSE retired[handle]

\* BaseWorkerBridge.postMessage: dropped unless the bridge is ready
postMessage(br, wk, b, messages) ==
    IF br[b].exists /\ br[b].worker /\ br[b].state = "ready"
    THEN [wk EXCEPT ![b].inbox = @ \o messages]
    ELSE wk

\* syncDataToWorker: the data message; `of` is (history) the call it belongs to
syncDataToWorker(s, of) ==
    IF isSharedBufferSupported(s)
    THEN <<[type |-> "updateDataShared", offset |-> 0, count |-> getDataCount(s),
            of |-> of]>>
    ELSE IF s.dataView # "null"
    THEN <<[type |-> "updateData", data |-> getDataBuffer(s), of |-> of]>>
    ELSE <<>>

\* the largest volume among the bars inside the visible time range, 0 if none
MaxVolume(data, from, to) ==
    LET visible == {i \in DOMAIN data : /\ LessEq(from, Ratio(data[i].time, 1))
                                        /\ LessEq(Ratio(data[i].time, 1), to)}
        volumes == {data[i].volume : i \in visible} \cup {0}
    IN  MaxOf(volumes)

\* updateViewport: the setViewport message, from the scales of controller c
updateViewport(s, c, of) ==
    LET from == c.timeScale.visibleMinTime
        to   == c.timeScale.visibleMaxTime
    IN  <<[type |-> "setViewport",
           viewport |-> [timeRange   |-> [from |-> from, to |-> to],
                         priceRange  |-> [min |-> c.priceScale.visibleMinPrice,
                                          max |-> c.priceScale.visibleMaxPrice],
                         volumeRange |-> [min |-> 0,
                                          max |-> MaxVolume(getData(s), from, to)]],
           of |-> of]>>

\* the two sends the other way round
ViewportThenData(s, c, of) == updateViewport(s, c, of) \o syncDataToWorker(s, of)

\* the sends that follow a change of the data: the data, then the viewport
DataMessages(s, c, of) == syncDataToWorker(s, of) \o updateViewport(s, c, of)

\* handleDataChange, the store's listener
handleDataChange(s, c, of) == IF s.event # "none" THEN DataMessages(s, c, of) ELSE <<>>

\* initWorker: the bridge becomes initializing and its worker is created
initWorker(br, b) == [br EXCEPT ![b] = [exists |-> TRUE, worker |-> TRUE,
                                        state |-> "initializing"]]

\* new Worker(...): a worker of its own, whatever worker the name had before
spawn(wk, w) == [wk EXCEPT ![w] = [FreshWorker EXCEPT !.spawned = TRUE]]

(* RenderWorker.ts and ComputeWorker: the message handlers, on one worker record *)
RenderWorker_handleInit(w, message) ==
    LET v == IF message.sharedBuffer # 0
             THEN [w EXCEPT !.sharedData = message.sharedBuffer] ELSE w
    IN  IF ~env.webgl2
        THEN [v EXCEPT !.outbox = Append(@, [type |-> "error"])]
        ELSE [v EXCEPT !.isInitialized = TRUE, !.outbox = Append(@, [type |-> "ready"])]

ComputeWorker_handleInit(w, message) ==
    LET v == IF message.sharedBuffer # 0
             THEN [w EXCEPT !.sharedData = message.sharedBuffer] ELSE w
    IN  [v EXCEPT !.isInitialized = TRUE, !.outbox = Append(@, [type |-> "ready"])]

handleUpdateData(w, message) ==
    [w EXCEPT !.dataBuffer = message.data,
              !.dataCount = Len(message.data) \div FLOATS_PER_CANDLE]

handleUpdateDataShared(w, message) ==
    IF w.sharedData = 0 THEN w
    ELSE LET sharedData == SharedView(w.sharedData)
             n          == message.count * FLOATS_PER_CANDLE
             dataBuffer == IF Len(w.dataBuffer) < n THEN Zeros(n) ELSE w.dataBuffer
         IN  [w EXCEPT !.dataCount = message.count,
                       !.dataBuffer =
                           [i \in 1..Len(dataBuffer) |->
                               IF i <= n THEN Float32Get(sharedData, message.offset + i - 1)
                               ELSE dataBuffer[i]]]

handleSetViewport(w, message) == [w EXCEPT !.viewport = message.viewport]

RenderWorker_handleDestroy(w) == [w EXCEPT !.isInitialized = FALSE]

ComputeWorker_handleDestroy(w) == [w EXCEPT !.isInitialized = FALSE, !.sharedData = 0]

\* what a Float32Array element holds after a store of NaN or of undefined
NaN == Undefined - 1

ToFloat32(v) == IF v = Undefined \/ v = NaN THEN NaN ELSE fround(v)

\* a comparison of two numbers, false when either is NaN
Greater(a, b) == a # NaN /\ b # NaN /\ a > b

Plus(a, b) == IF a = NaN \/ b = NaN THEN NaN ELSE a + b

\* a postError that leaves the id out of the response
postErrorWithoutId(w, id) ==
    [w EXCEPT !.outbox = Append(@, [type |-> "error", id |-> 0])]

\* postError(message, id) of a worker; id 0 is undefined
postError(w, id) == [w EXCEPT !.outbox = Append(@, [type |-> "error", id |-> id])]

\* extractCloseData(offset, count): zeros when the worker has no shared data
extractCloseData(w, offset, count) ==
    [i \in 1..count |->
        IF w.sharedData # 0
        THEN ToFloat32(Float32Get(SharedView(w.sharedData),
                                  offset + (i - 1) * FLOATS_PER_CANDLE + 4))
        ELSE 0]

extractOHLCData(w, offset, count) ==
    [i \in 1..(count * FLOATS_PER_CANDLE) |->
        IF w.sharedData # 0
        THEN ToFloat32(Float32Get(SharedView(w.sharedData), offset + i - 1))
        ELSE 0]

Indicators == {"SMA", "EMA", "RSI", "MACD", "BB"}

\* the series an indicator function returns, kept as its name and its input
calculate(indicator, closeData) == [indicator |-> indicator, of |-> closeData]

\* an unknown indicator throws; self.onmessage catches and posts the error
handleComputeIndicator(w, message) ==
    LET closeData == extractCloseData(w, message.dataOffset, message.dataCount)
    IN  IF message.indicator \notin Indicators
        THEN postError(w, message.id)
        ELSE [w EXCEPT !.outbox = Append(@,
                 [type |-> "indicatorResult", id |-> message.id,
                  indicator |-> message.indicator,
                  data |-> calculate(message.indicator, closeData)])]

(***************************************************************************)
(* The bucket bounds of decimateM4 are computed in IEEE-754 doubles:        *)
(* bucketSize = sourceCount / targetCount is rounded to 53 significant      *)
(* bits, bucket * bucketSize is rounded again, and Math.floor takes the     *)
(* whole part.  A double q >= 1 is kept as its whole part and the bits of   *)
(* its fraction in three limbs (hi of hiBits bits, mid and lo of LimbBits   *)
(* bits).  The operands stay below 2^10, so every product fits an int.      *)
(***************************************************************************)
DoubleBits == 53

LimbBits == 20

Limb == 2 ^ LimbBits

\* the number of bits of n: 0 for 0, k for 2^(k-1) <= n < 2^k
BitLength(n) ==
    IF n = 0 THEN 0 ELSE CHOOSE k \in 1..30 : 2 ^ (k - 1) <= n /\ n < 2 ^ k

\* the double one unit in the last place above q
NextUp(q) ==
    IF q.lo + 1 < Limb THEN [q EXCEPT !.lo = @ + 1]
    ELSE IF q.mid + 1 < Limb THEN [q EXCEPT !.lo = 0, !.mid = @ + 1]
    ELSE IF q.hi + 1 < 2 ^ q.hiBits THEN [q EXCEPT !.lo = 0, !.mid = 0, !.hi = @ + 1]
    ELSE [q EXCEPT !.lo = 0, !.mid = 0, !.hi = 0, !.whole = @ + 1]

\* sourceCount / targetCount for sourceCount >= targetCount >= 1: long division
\* to 53 significant bits, then round to nearest, ties to even
DoubleQuotient(sourceCount, targetCount) ==
    LET whole  == sourceCount \div targetCount
        hiBits == DoubleBits - BitLength(whole) - 2 * LimbBits
        n1     == (sourceCount % targetCount) * 2 ^ hiBits
        n2     == (n1 % targetCount) * Limb
        n3     == (n2 % targetCount) * Limb
        rest   == n3 % targetCount
        q      == [whole |-> whole, hiBits |-> hiBits, hi |-> n1 \div targetCount,
                   mid |-> n2 \div targetCount, lo |-> n3 \div targetCount]
    IN  IF 2 * rest > targetCount \/ (2 * rest = targetCount /\ q.lo % 2 = 1)
        THEN NextUp(q) ELSE q

\* Math.floor(bucket * bucketSize): the exact product, rounded to 53
\* significant bits (nearest, ties to even), then its whole part; the
\* rounding reaches the whole part only when every kept fraction bit is 1
FloorOfProduct(bucket, bucketSize) ==
    LET m3      == bucket * bucketSize.lo
        m2      == bucket * bucketSize.mid + m3 \div Limb
        m1      == bucket * bucketSize.hi + m2 \div Limb
        top     == 2 ^ bucketSize.hiBits
        whole   == bucket * bucketSize.whole + m1 \div top
        gone    == BitLength(whole) - BitLength(bucketSize.whole)
        kept    == (m3 % Limb) \div 2 ^ gone
        dropped == (m3 % Limb) % 2 ^ gone
        half    == 2 ^ (gone - 1)
        up      == gone > 0 /\ (dropped > half \/ (dropped = half /\ kept % 2 = 1))
        ones    == /\ m1 % top = top - 1
                   /\ m2 % Limb = Limb - 1
                   /\ kept = 2 ^ (LimbBits - gone) - 1
    IN  IF bucket = 0 THEN 0
        ELSE IF up /\ ones THEN whole + 1 ELSE whole

\* the scan of one bucket of decimateM4: bars i .. endIdx - 1 folded into acc
RECURSIVE ScanBucket(_, _, _, _)
ScanBucket(data, i, endIdx, acc) ==
    IF i >= endIdx THEN acc
    ELSE LET offset == i * FLOATS_PER_CANDLE
             h == data[offset + 3]
             l == data[offset + 4]
             c == data[offset + 5]
             v == data[offset + 6]
         IN  ScanBucket(data, i + 1, endIdx,
                 [acc EXCEPT !.high = IF Greater(h, @) THEN h ELSE @,
                             !.low = IF Greater(@, l) THEN l ELSE @,
                             !.close = c,
                             !.volume = Plus(@, v)])

decimateM4(data, targetCount) ==
    LET sourceCount == Len(data) \div FLOATS_PER_CANDLE
        bucketSize  == DoubleQuotient(sourceCount, targetCount)
        Bucket(bucket) ==
            LET startIdx == FloorOfProduct(bucket, bucketSize)
                endIdx   == Min(FloorOfProduct(bucket + 1, bucketSize), sourceCount)
            IN  IF startIdx >= endIdx
                THEN [time |-> 0, open |-> 0, high |-> 0, low |-> 0, close |-> 0,
                      volume |-> 0]
                ELSE ScanBucket(data, startIdx + 1, endIdx,
                                LoadCandle(data, startIdx * FLOATS_PER_CANDLE))
    IN  IF sourceCount <= targetCount THEN data
        ELSE [n \in 1..(targetCount * FLOATS_PER_CANDLE) |->
                ToFloat32(Field(Bucket((n - 1) \div FLOATS_PER_CANDLE),
                                (n - 1) % FLOATS_PER_CANDLE))]

\* new Float32Array(targetCount * FLOATS_PER_CANDLE) throws a RangeError for a
\* negative targetCount; self.onmessage catches it and posts the error
handleDecimate(w, message) ==
    LET ohlcData == extractOHLCData(w, message.dataOffset, message.dataCount)
        result   == decimateM4(ohlcData, message.targetCount)
    IN  IF message.dataCount > message.targetCount /\ message.targetCount < 0
        THEN postError(w, message.id)
        ELSE [w EXCEPT !.outbox = Append(@,
                [type |-> "decimateResult", id |-> message.id, data |-> result,
                 originalCount |-> message.dataCount,
                 decimatedCount |-> Len(result) \div FLOATS_PER_CANDLE])]

\* self.onmessage of the two workers
onmessage(name, w, message) ==
    CASE message.type = "init" ->
           IF name = "render" THEN RenderWorker_handleInit(w, message)
           ELSE ComputeWorker_handleInit(w, message)
      [] message.type = "updateData" /\ name = "render" ->
           [handleUpdateData(w, message) EXCEPT !.lastData = message.of]
      [] message.type = "updateDataShared" /\ name = "render" ->
           [handleUpdateDataShared(w, message) EXCEPT !.lastData = message.of]
      [] message.type = "setViewport" /\ name = "render" -> handleSetViewport(w, message)
      [] message.type = "computeIndicator" /\ name = "compute" ->
           handleComputeIndicator(w, message)
      [] message.type = "decimate" /\ name = "compute" -> handleDecimate(w, message)
      [] message.type = "destroy" ->
           IF name = "render" THEN RenderWorker_handleDestroy(w)
           ELSE ComputeWorker_handleDestroy(w)
      [] OTHER -> w

(* BaseWorkerBridge.sendRequest and the settling of its promises.  req is  *)
(* the compute bridge's request state: requestIdCounter, the ids of        *)
(* pendingRequests, the ids whose timeout timer is set and not cleared,    *)
(* and (history) settled[id], the resolve / reject calls made on the       *)
(* promise of request id, in order.                                        *)
sendRequest(r) ==
    LET id == r.requestIdCounter + 1
    IN  [r EXCEPT !.requestIdCounter = id,
                  !.pendingRequests = @ \cup {id},
                  !.timers = @ \cup {id},
                  !.settled = Append(@, <<>>)]

\* a message that carries a request id
HasId(message) == "id" \in DOMAIN message /\ message.id # 0

\* handleMessage for the response to a pending request
settleResponse(r, response) ==
    [r EXCEPT !.timers = @ \ {response.id},
              !.pendingRequests = @ \ {response.id},
              !.settled[response.id] =
                  Append(@, IF response.type = "error" THEN "rejected: error"
                            ELSE "resolved")]

\* a timeout callback that rejects and leaves the pending entry in the map
timeoutKeepsEntry(r, id) ==
    [r EXCEPT !.timers = @ \ {id},
              !.settled[id] = Append(@, "rejected: timeout")]

\* the timeout callback of request id
timeoutCallback(r, id) ==
    [r EXCEPT !.timers = @ \ {id},
              !.pendingRequests = @ \ {id},
              !.settled[id] = Append(@, "rejected: timeout")]

\* destroy(): every pending request is rejected and the map is cleared
rejectPending(r) ==
    [r EXCEPT !.timers = @ \ r.pendingRequests,
              !.pendingRequests = {},
              !.settled = [id \in DOMAIN @ |->
                             IF id \in r.pendingRequests
                             THEN Append(@[id], "rejected: destroyed") ELSE @[id]]]

ChartInit ==
    /\ \E supportsSharedArrayBuffer \in BOOLEAN :
          st = SharedDataManager([initialCapacity |-> ChartInitialCapacity,
                                  maxCapacity |-> ChartMaxCapacity,
                                  ringBufferMode |-> FALSE], supportsSharedArrayBuffer)
    /\ env \in [offscreen : BOOLEAN, webgl2 : BOOLEAN]
    /\ controller = [pc |-> "new", sharedBuffer |-> 0, isInitialized |-> FALSE,
                     emitted |-> {}, canvasSets |-> 0, workersCreated |-> 0,
                     timeScale |-> NewTimeScale, priceScale |-> NewPriceScale,
                     sent |-> <<>>]
    /\ bridge = [b \in Workers |-> FreshBridge]
    /\ worker = [w \in Workers |-> FreshWorker]
    /\ retired = <<>>
    /\ req = NoRequests
    /\ rt = NoFeed
    /\ lastOp = [op |-> "new", arg |-> <<>>]
    /\ fb = NoStore
    /\ writer = WriterIdle
    /\ reader = ReaderIdle

\* initWorkers from `this.computeBridge = new ComputeWorkerBridge()` to the
\* await of its init
AwaitCompute(c, br, wk) ==
    /\ controller' = [c EXCEPT !.pc = "awaitCompute", !.workersCreated = @ + 1]
    /\ bridge' = initWorker(br, "compute")
    /\ worker' = spawn(wk, "compute")

\* init() after initWorkers has returned
FinishInit(c, br, wk) ==
    /\ controller' = [c EXCEPT !.pc = "ready", !.isInitialized = TRUE,
                               !.emitted = @ \cup {"ready"}]
    /\ bridge' = br
    /\ worker' = postMessage(br, wk, "render", <<[type |-> "setTheme"]>>)

\* init(container) past its guard, up to its first await: createCanvasElements,
\* then initWorkers up to the await of a bridge's init
InitToAwait ==
    LET c  == [controller EXCEPT !.sharedBuffer = getSharedBuffer, !.canvasSets = @ + 1]
        br == [bridge EXCEPT !["render"] = [FreshBridge EXCEPT !.exists = TRUE]]
    IN  IF ~env.offscreen
        THEN AwaitCompute(c, br, worker)
        ELSE /\ controller' = [c EXCEPT !.pc = "awaitRender", !.workersCreated = @ + 1]
             /\ bridge' = initWorker(br, "render")
             /\ worker' = spawn(worker, "render")

\* init(container) on a fresh controller, up to its first await
CtrlInit ==
    /\ controller.pc = "new"
    /\ InitToAwait
    /\ UNCHANGED <<st, lastOp, fb, threadVars, retired, env, req, rt>>

\* init() calls in a behaviour of SpecChart
MaxInits == 2

\* a worker that will post nothing more unless it is sent a message
Quiet(w) ==
    worker[w].spawned =>
        /\ worker[w].booted \/ worker[w].faulted
        /\ worker[w].inbox = <<>>
        /\ worker[w].outbox = <<>>

\* init(container) called again while an earlier init() call is at an await: the
\* guard reads isInitialized, which is still false.  The bridges of the earlier
\* call lose their place in the controller's fields; the call is made when their
\* workers are quiet, so the earlier init() waits forever.
CtrlInitAgain ==
    /\ controller.pc \in {"awaitRender", "awaitCompute"}
    /\ ~controller.isInitialized
    /\ controller.canvasSets < MaxInits
    /\ \A w \in Workers : Quiet(w)
    /\ InitToAwait
    /\ UNCHANGED <<st, lastOp, fb, threadVars, retired, env, req, rt>>

\* (history) the messages of one send to the render bridge, each with the data
\* ranges the scales of controller c had when it was sent
Sent(messages, c) ==
    IF bridge["render"].exists /\ bridge["render"].worker /\ bridge["render"].state = "ready"
    THEN [i \in DOMAIN messages |->
            [type       |-> messages[i].type,
             timeRange  |-> [from |-> c.timeScale.minTime, to |-> c.timeScale.maxTime],
             priceRange |-> [min |-> c.priceScale.minPrice, max |-> c.priceScale.maxPrice]]]
    ELSE <<>>

\* a call of the store made by the controller: a buffer the call replaced is
\* retired; c is the controller with the call's changes of the scales, sent the
\* call's sends
StoreCall(op, arg, s, c, sent) ==
    /\ controller.pc # "destroyed"
    /\ st' = s
    /\ lastOp' = [op |-> op, arg |-> arg]
    /\ retired' = IF s.allocated THEN Append(retired, st.data) ELSE retired
    /\ controller' = [c EXCEPT !.sent = sent,
                               !.emitted = @ \cup
                                   (IF s.event # "none" THEN {"dataChange"} ELSE {})]
    /\ UNCHANGED <<fb, threadVars, bridge, env, req, rt>>

ChartSetData(data) ==
    LET s      == setData(st, data)
        of     == [op |-> "setData", arg |-> data]
        first  == handleDataChange(s, controller, of)
        times  == {data[i].time : i \in DOMAIN data}
        prices == {data[i].high : i \in DOMAIN data} \cup {data[i].low : i \in DOMAIN data}
        c      == IF Len(data) > 0
                  THEN [controller EXCEPT
                          !.timeScale = TimeScale_fitContent(
                              TimeScale_setDataRange(
                                  TimeScale_setTimestamps(@, [i \in DOMAIN data |->
                                                                data[i].time]),
                                  MinOf(times), MaxOf(times))),
                          !.priceScale = PriceScale_fitContent(
                              PriceScale_setDataRange(@, MinOf(prices), MaxOf(prices)))]
                  ELSE controller
        second == DataMessages(s, c, of)
    IN  /\ StoreCall("setData", data, s, c, Sent(first, controller) \o Sent(second, c))
        /\ worker' = postMessage(bridge, worker, "render", first \o second)

ChartAppendData(candles) ==
    LET s     == appendData(st, candles)
        first == handleDataChange(s, controller, [op |-> "appendData", arg |-> candles])
    IN  /\ StoreCall("appendData", candles, s, controller, Sent(first, controller))
        /\ worker' = postMessage(bridge, worker, "render", first)

ChartUpdateLastCandle(candle) ==
    LET s     == updateLastCandle(st, candle)
        first == handleDataChange(s, controller,
                                  [op |-> "updateLastCandle", arg |-> <<candle>>])
    IN  /\ StoreCall("updateLastCandle", <<candle>>, s, controller,
                     Sent(first, controller))
        /\ worker' = postMessage(bridge, worker, "render", first)

\* ChartController.destroy: both bridges are destroyed, their workers terminated
ChartDestroy ==
    /\ controller.pc # "destroyed"
    /\ controller' = [controller EXCEPT !.pc = "destroyed"]
    /\ bridge' = [b \in Workers |->
                    IF bridge[b].exists
                    THEN [bridge[b] EXCEPT !.worker = FALSE, !.state = "destroyed"]
                    ELSE bridge[b]]
    /\ worker' = [w \in Workers |->
                    IF bridge[w].exists /\ bridge[w].worker
                    THEN [worker[w] EXCEPT !.spawned = FALSE, !.inbox = <<>>,
                                           !.outbox = <<>>]
                    ELSE worker[w]]
    /\ st' = destroy(st)
    /\ req' = IF bridge["compute"].exists THEN rejectPending(req) ELSE req
    /\ UNCHANGED <<lastOp, fb, threadVars, retired, env, rt>>

\* a worker thread runs: first its script (which sets self.onmessage and posts
\* nothing), then one message of its inbox at a time
WorkerRun(w) ==
    /\ worker[w].spawned
    /\ ~worker[w].faulted
    /\ IF ~worker[w].booted
       THEN worker' = [worker EXCEPT ![w].booted = TRUE]
       ELSE /\ worker[w].inbox # <<>>
            /\ worker' = [worker EXCEPT
                            ![w] = onmessage(w, [@ EXCEPT !.inbox = Tail(@)],
                                             Head(worker[w].inbox))]
    /\ UNCHANGED <<st, lastOp, fb, threadVars, controller, bridge, retired, env, req, rt>>

\* the worker's script fails to start: an error event goes to worker.onerror
WorkerFault(w) ==
    /\ worker[w].spawned
    /\ ~worker[w].booted
    /\ ~worker[w].faulted
    /\ worker' = [worker EXCEPT ![w].faulted = TRUE,
                                ![w].outbox = Append(@, [type |-> "errorEvent"])]
    /\ UNCHANGED <<st, lastOp, fb, threadVars, controller, bridge, retired, env, req, rt>>

\* the main thread takes one event of a worker: worker.onerror or
\* worker.onmessage, and the continuation of init() when the event settles the
\* promise that init() awaits
BridgeDispatch(b) ==
    /\ bridge[b].worker
    /\ worker[b].outbox # <<>>
    /\ LET event    == Head(worker[b].outbox)
           wk       == [worker EXCEPT ![b].outbox = Tail(@)]
           answer   == b = "compute" /\ HasId(event) /\ event.id \in req.pendingRequests
           failed   == event.type \in {"errorEvent", "error"}
           br       == IF event.type = "ready" THEN [bridge EXCEPT ![b].state = "ready"]
                       ELSE IF failed THEN [bridge EXCEPT ![b].state = "error"]
                       ELSE bridge
           c        == IF failed /\ b = "render"
                       THEN [controller EXCEPT !.emitted = @ \cup {"error"}]
                       ELSE controller
           resolved == event.type = "ready"
           rejected == event.type = "errorEvent"
           init     == [type |-> "init", sharedBuffer |-> controller.sharedBuffer]
       IN  IF answer
           THEN /\ req' = settleResponse(req, event)
                /\ worker' = wk
                /\ UNCHANGED <<controller, bridge>>
           ELSE /\ req' = req
                /\ IF (resolved \/ rejected) /\ b = "render"
                      /\ controller.pc = "awaitRender"
                   THEN AwaitCompute(c, br,
                            IF resolved THEN [wk EXCEPT ![b].inbox = Append(@, init)]
                            ELSE wk)
                   ELSE IF (resolved \/ rejected) /\ b = "compute"
                           /\ controller.pc = "awaitCompute"
                   THEN FinishInit(c, br,
                            IF resolved THEN postMessage(br, wk, b, <<init>>) ELSE wk)
                   ELSE /\ controller' = c
                        /\ bridge' = br
                        /\ worker' = wk
    /\ UNCHANGED <<st, lastOp, fb, threadVars, retired, env, rt>>

ChartNext ==
    \/ CtrlInit
    \/ CtrlInitAgain
    \/ \E data \in ChartArgs : ChartSetData(data)
    \/ \E candles \in ChartArgs : ChartAppendData(candles)
    \/ \E candle \in Candles : ChartUpdateLastCandle(candle)
    \/ ChartDestroy
    \/ \E w \in Workers : WorkerRun(w)
    \/ \E w \in Workers : WorkerFault(w)
    \/ \E b \in Workers : BridgeDispatch(b)

SpecChart == ChartInit /\ [][ChartNext]_vars

\* The worker threads run and the main thread's event loop delivers the workers'
\* events; the chart's user and a worker's failure are under no obligation.
FairChart ==
    /\ SpecChart
    /\ WF_vars(\E w \in Workers : WorkerRun(w))
    /\ WF_vars(\E b \in Workers : BridgeDispatch(b))

\* A worker posts `ready` only from handleInit and a bridge posts `init` only
\* after `ready` has arrived, so no bridge is ever ready.
NoBridgeEverReady == \A b \in Workers : bridge[b].state # "ready"

\* no worker has failed to start
StartedWithoutFailure ==
    /\ env.offscreen
    /\ env.webgl2
    /\ \A w \in Workers : ~worker[w].faulted

\* C1: after init(container) is called on a fresh controller and both workers
\* start without failure, initialization eventually completes and the controller
\* emits `ready`: the handshake between a bridge and its worker never waits
\* forever.
C1_InitEventuallyReady ==
    (controller.pc \in {"awaitRender", "awaitCompute"} /\ StartedWithoutFailure)
        ~> \/ "ready" \in controller.emitted
           \/ ~StartedWithoutFailure
           \/ controller.pc = "destroyed"

\* C4: in shared mode the region handed to the workers at init is the region the
\* controller's store writes to, for the controller's whole lifetime: after any
\* setData/appendData calls, growth included, the handle taken at init is the
\* store's buffer, and an updateDataShared{0, count} on a worker holding that
\* handle copies exactly the bars that are in the store.
C4_WorkersRegionIsStoresRegion ==
    (st.supports /\ controller.pc \in {"awaitRender", "awaitCompute", "ready"}) =>
        /\ controller.sharedBuffer = getSharedBuffer
        /\ handleUpdateDataShared([FreshWorker EXCEPT !.sharedData = controller.sharedBuffer],
                                  [offset |-> 0, count |-> getDataCount(st)]).dataBuffer
             = getDataBuffer(st)

(***************************************************************************)
(* The two environments side by side: the same options and the same calls  *)
(* on a store built where SharedArrayBuffer is available (st) and on one   *)
(* built where it is not (fb).                                             *)
(***************************************************************************)
\* longest argument of a call in SpecTwin
TwinLen == 2

TwinArgs == SeqsUpTo(TwinLen)

TwinInit ==
    /\ \E o \in SaneOptions :
          /\ st = SharedDataManager(o, TRUE)
          /\ fb = SharedDataManager(o, FALSE)
    /\ lastOp = [op |-> "new", arg |-> <<>>]
    /\ writer = WriterIdle
    /\ reader = ReaderIdle
    /\ NoChart

TwinSetData(data) ==
    /\ st' = setData(st, data)
    /\ fb' = setData(fb, data)
    /\ lastOp' = [op |-> "setData", arg |-> data]
    /\ UNCHANGED <<threadVars, chartVars>>

TwinAppendData(candles) ==
    /\ st' = appendData(st, candles)
    /\ fb' = appendData(fb, candles)
    /\ lastOp' = [op |-> "appendData", arg |-> candles]
    /\ UNCHANGED <<threadVars, chartVars>>

TwinUpdateLastCandle(candle) ==
    /\ st' = updateLastCandle(st, candle)
    /\ fb' = updateLastCandle(fb, candle)
    /\ lastOp' = [op |-> "updateLastCandle", arg |-> <<candle>>]
    /\ UNCHANGED <<threadVars, chartVars>>

TwinClear ==
    /\ st' = clear(st)
    /\ fb' = clear(fb)
    /\ lastOp' = [op |-> "clear", arg |-> <<>>]
    /\ UNCHANGED <<threadVars, chartVars>>

TwinNext ==
    \/ \E data \in TwinArgs : TwinSetData(data)
    \/ \E candles \in TwinArgs : TwinAppendData(candles)
    \/ \E candle \in Candles : TwinUpdateLastCandle(candle)
    \/ TwinClear

SpecTwin == TwinInit /\ [][TwinNext]_vars

\* C5: without shared memory the store reports, after every sequence of setAll,
\* append, updateLast and clear calls, the count and the snapshot() that the
\* shared-memory store reports after the same sequence.
C5_FallbackSameContract ==
    /\ getDataCount(fb) = getDataCount(st)
    /\ getData(fb) = getData(st)


(***************************************************************************)
(* The compute bridge and its worker after the handshake.  Linked(ready)   *)
(* is the chart on a platform without OffscreenCanvas once initWorkers has *)
(* created the compute bridge: with ready = FALSE the bridge is still      *)
(* initializing, which is where init() of the bridge waits; with ready =   *)
(* TRUE the worker has handled `init` and the bridge has handled `ready`,  *)
(* the state the code of bridge and worker is written for.  Before init() *)
(* the chart's user has called setData at most once.                       *)
(***************************************************************************)
\* requests sent in a behaviour of SpecRequests
MaxRequests == 2

\* the data of that setData call
LinkedData == {<<>>, [k \in 1..ChartMaxCapacity |-> Candle(k)]}

Linked(ready) ==
    /\ \E supportsSharedArrayBuffer \in BOOLEAN, data \in LinkedData :
          LET new == SharedDataManager([initialCapacity |-> ChartInitialCapacity,
                                        maxCapacity |-> ChartMaxCapacity,
                                        ringBufferMode |-> FALSE],
                                       supportsSharedArrayBuffer)
              s   == IF data = <<>> THEN new ELSE setData(new, data)
          IN  /\ st = s
              /\ retired = IF data # <<>> /\ s.allocated THEN <<new.data>> ELSE <<>>
    /\ env = [offscreen |-> FALSE, webgl2 |-> TRUE]
    /\ controller = [pc |-> IF ready THEN "ready" ELSE "awaitCompute",
                     sharedBuffer |-> getSharedBuffer, isInitialized |-> ready,
                     emitted |-> IF ready THEN {"ready"} ELSE {},
                     canvasSets |-> 1, workersCreated |-> 1,
                     timeScale |-> NewTimeScale, priceScale |-> NewPriceScale,
                     sent |-> <<>>]
    /\ bridge = [b \in Workers |->
                    IF b = "compute"
                    THEN [exists |-> TRUE, worker |-> TRUE,
                          state |-> IF ready THEN "ready" ELSE "initializing"]
                    ELSE [FreshBridge EXCEPT !.exists = TRUE]]
    /\ worker = [w \in Workers |->
                    IF w = "compute"
                    THEN [FreshWorker EXCEPT !.spawned = TRUE, !.booted = TRUE,
                                             !.isInitialized = ready,
                                             !.sharedData = IF ready THEN getSharedBuffer
                                                            ELSE 0]
                    ELSE FreshWorker]
    /\ req = NoRequests
    /\ rt = NoFeed
    /\ lastOp = [op |-> "new", arg |-> <<>>]
    /\ fb = NoStore
    /\ writer = WriterIdle
    /\ reader = ReaderIdle

RequestsInit == \E ready \in BOOLEAN : Linked(ready)

\* sendRequest(message) of the compute bridge: message.id is assigned the
\* fresh id before the post, whatever the caller left in it (0 here, never
\* an issued id)
SendRequest(message) ==
    /\ bridge["compute"].exists
    /\ req.requestIdCounter < MaxRequests
    /\ req' = sendRequest(req)
    /\ worker' = postMessage(bridge, worker, "compute",
                             <<[message EXCEPT !.id = req.requestIdCounter + 1]>>)
    /\ UNCHANGED <<st, lastOp, fb, threadVars, controller, bridge, retired, env, rt>>

\* ComputeWorkerBridge.computeIndicator(indicator, params, dataOffset, dataCount)
SendComputeIndicator(indicator, dataOffset, dataCount) ==
    SendRequest([type |-> "computeIndicator", indicator |-> indicator,
                 dataOffset |-> dataOffset, dataCount |-> dataCount,
                 id |-> 0])

\* ComputeWorkerBridge.decimate(dataOffset, dataCount, targetCount)
SendDecimate(dataOffset, dataCount, targetCount) ==
    SendRequest([type |-> "decimate", dataOffset |-> dataOffset,
                 dataCount |-> dataCount, targetCount |-> targetCount,
                 id |-> 0])

\* the timeout of request id expires
TimerExpire(id) ==
    /\ id \in req.timers
    /\ req' = timeoutCallback(req, id)
    /\ UNCHANGED <<st, lastOp, fb, threadVars, controller, bridge, worker, retired, env, rt>>

\* the indicator kinds a caller may name: the five known ones and one unknown
Kinds == Indicators \cup {"VWAP"}

Offsets == {0, FLOATS_PER_CANDLE}

Counts == 1..ChartMaxCapacity

Targets == (-1)..ChartMaxCapacity

RequestsNext ==
    \/ \E indicator \in Kinds, dataOffset \in Offsets, dataCount \in Counts :
          SendComputeIndicator(indicator, dataOffset, dataCount)
    \/ \E dataOffset \in Offsets, dataCount \in Counts, targetCount \in Targets :
          SendDecimate(dataOffset, dataCount, targetCount)
    \/ \E id \in 1..MaxRequests : TimerExpire(id)
    \/ ChartDestroy
    \/ WorkerRun("compute")
    \/ BridgeDispatch("compute")

SpecRequests == RequestsInit /\ [][RequestsNext]_vars


\* the timers of the requests run out; the worker and the event loop run
FairRequests ==
    /\ SpecRequests
    /\ WF_vars(\E id \in 1..MaxRequests : TimerExpire(id))

Issued == 1..req.requestIdCounter

\* the step is a call of destroy()
DestroyStep == controller.pc # "destroyed" /\ controller'.pc = "destroyed"

\* C11: every request sent through the bridge is settled exactly once, by its
\* response, by its timeout or by destroy(), whichever comes first; its pending
\* entry (and its timer) goes at that moment, under every interleaving; destroy()
\* rejects every request outstanding when it is called; no request stays
\* unsettled forever.
C11_RequestSettledExactlyOnce ==
    /\ [](\A id \in Issued :
            /\ Len(req.settled[id]) <= 1
            /\ (id \in req.pendingRequests) <=> (req.settled[id] = <<>>)
            /\ (id \in req.timers) <=> (id \in req.pendingRequests))
    /\ [][DestroyStep =>
            /\ req'.pendingRequests = {}
            /\ \A id \in req.pendingRequests :
                  req'.settled[id] = <<"rejected: destroyed">>]_vars
    /\ \A id \in 1..MaxRequests :
          (id \in req.pendingRequests) ~> (id \notin req.pendingRequests)

\* one request was resolved by its response and destroy() rejected another
C11_Witness ==
    /\ controller.pc = "destroyed"
    /\ \E id \in Issued : req.settled[id] = <<"resolved">>
    /\ \E id \in Issued : req.settled[id] = <<"rejected: destroyed">>

\* the compute worker handles the message at the head of its inbox in this step
ComputeHandles(type) ==
    /\ worker["compute"].spawned
    /\ worker'["compute"].spawned
    /\ worker["compute"].booted
    /\ worker["compute"].inbox # <<>>
    /\ worker'["compute"].inbox = Tail(worker["compute"].inbox)
    /\ Head(worker["compute"].inbox).type = type

\* what the compute worker posted in this step
Posted ==
    SubSeq(worker'["compute"].outbox, Len(worker["compute"].outbox) + 1,
           Len(worker'["compute"].outbox))

\* C12: for a computeIndicator or decimate request that carries an id the compute
\* worker posts exactly one response, with that id: the result message of the
\* request's type, or an error message when handling fails, as it does for an
\* unknown indicator kind.
C12_OneResponseSameId ==
    [][\A type \in {"computeIndicator", "decimate"} :
          (ComputeHandles(type) /\ HasId(Head(worker["compute"].inbox))) =>
              LET message == Head(worker["compute"].inbox)
              IN  /\ Len(Posted) = 1
                  /\ Posted[1].id = message.id
                  /\ Posted[1].type \in
                        {IF type = "decimate" THEN "decimateResult" ELSE "indicatorResult",
                         "error"}
                  /\ (type = "computeIndicator" /\ message.indicator \notin Indicators)
                        => Posted[1].type = "error"
                  /\ (type = "computeIndicator" /\ message.indicator \in Indicators)
                        => Posted[1].type = "indicatorResult"]_vars

\* the worker has answered one request with an error and one with a result
C12_Witness ==
    \E i, j \in 1..Len(worker["compute"].outbox) :
        /\ worker["compute"].outbox[i].type = "error"
        /\ worker["compute"].outbox[i].id \in Issued
        /\ worker["compute"].outbox[j].type \in {"indicatorResult", "decimateResult"}
        /\ worker["compute"].outbox[j].id \in Issued

C14_WorkerFailureSurfaced ==
    [][\A b \in Workers :
          (bridge[b].state # "error" /\ bridge'[b].state = "error") =>
              "error" \in controller'.emitted]_vars


\* C15: init() takes effect at most once per controller: an init() call made
\* after an earlier one has started, also while the earlier one is awaiting the
\* workers' start-up, and an init() call on a destroyed controller create no
\* second set of canvases and no second set of workers.
C15_InitTakesEffectOnce ==
    /\ controller.canvasSets <= 1
    /\ controller.workersCreated <= Cardinality(Workers)


(***************************************************************************)
(* The controller and its render worker after the handshake: both bridges  *)
(* are ready and each worker has handled `init` with the handle that       *)
(* initWorkers took from the store.                                        *)
(***************************************************************************)
\* a call is made when fewer than MaxBacklog messages wait in the render worker's
\* inbox
MaxBacklog == 1

SyncInit ==
    /\ \E supportsSharedArrayBuffer \in BOOLEAN :
          st = SharedDataManager([initialCapacity |-> ChartInitialCapacity,
                                  maxCapacity |-> ChartMaxCapacity,
                                  ringBufferMode |-> FALSE], supportsSharedArrayBuffer)
    /\ env = [offscreen |-> TRUE, webgl2 |-> TRUE]
    /\ retired = <<>>
    /\ controller = [pc |-> "ready", sharedBuffer |-> getSharedBuffer,
                     isInitialized |-> TRUE, emitted |-> {"ready"},
                     canvasSets |-> 1, workersCreated |-> Cardinality(Workers),
                     timeScale |-> NewTimeScale, priceScale |-> NewPriceScale,
                     sent |-> <<>>]
    /\ bridge = [b \in Workers |-> [exists |-> TRUE, worker |-> TRUE, state |-> "ready"]]
    /\ worker = [w \in Workers |->
                    [FreshWorker EXCEPT !.spawned = TRUE, !.booted = TRUE,
                                        !.isInitialized = TRUE,
                                        !.sharedData = getSharedBuffer]]
    /\ req = NoRequests
    /\ rt = NoFeed
    /\ lastOp = [op |-> "new", arg |-> <<>>]
    /\ fb = NoStore
    /\ writer = WriterIdle
    /\ reader = ReaderIdle

Backlog == Len(worker["render"].inbox) < MaxBacklog

SyncSetData(data) == Backlog /\ ChartSetData(data)

SyncAppendData(candles) == Backlog /\ ChartAppendData(candles)

SyncUpdateLastCandle(candle) == Backlog /\ ChartUpdateLastCandle(candle)

SyncNext ==
    \/ \E data \in ChartArgs : SyncSetData(data)
    \/ \E candles \in ChartArgs : SyncAppendData(candles)
    \/ \E candle \in Candles : SyncUpdateLastCandle(candle)
    \/ ChartDestroy
    \/ WorkerRun("render")

SpecSync == SyncInit /\ [][SyncNext]_vars

\* the last call was a mutation of the data that changed it
Mutated ==
    /\ lastOp.op \in {"setData", "appendData", "updateLastCandle"}
    /\ st.event # "none"
    /\ getDataCount(st) > 0

\* the data ranges that went with a send cover the bars
Covers(sending, bars) ==
    \A i \in DOMAIN bars :
        /\ sending.timeRange.from <= bars[i].time
        /\ bars[i].time <= sending.timeRange.to
        /\ sending.priceRange.min <= bars[i].low
        /\ bars[i].high <= sending.priceRange.max

DataTypes == {"updateData", "updateDataShared"}

\* the render worker handles the message at the head of its inbox in this step
RenderHandles(type) ==
    /\ worker["render"].spawned
    /\ worker'["render"].spawned
    /\ worker["render"].inbox # <<>>
    /\ worker'["render"].inbox = Tail(worker["render"].inbox)
    /\ Head(worker["render"].inbox).type = type

\* C17: for every data mutation the controller sends the data message before the
\* setViewport that belongs to it, and the render worker applies the two in that
\* order: when the worker applies a setViewport, the data message it handled
\* last is the one of the same mutation.
C17_DataBeforeItsViewport ==
    /\ [](\A i \in DOMAIN controller.sent :
            controller.sent[i].type = "setViewport" =>
                i > 1 /\ controller.sent[i - 1].type \in DataTypes)
    /\ [](\A i \in DOMAIN worker["render"].inbox :
            worker["render"].inbox[i].type = "setViewport" =>
                IF i > 1
                THEN /\ worker["render"].inbox[i - 1].type \in DataTypes
                     /\ worker["render"].inbox[i - 1].of = worker["render"].inbox[i].of
                ELSE worker["render"].lastData = worker["render"].inbox[i].of)
    /\ [][RenderHandles("setViewport") =>
            /\ worker["render"].lastData = Head(worker["render"].inbox).of
            /\ worker'["render"].viewport = Head(worker["render"].inbox).viewport
            /\ worker'["render"].dataBuffer = worker["render"].dataBuffer]_vars

\* the render worker has applied the data and then the viewport of an appendData
\* call, and the next pair is waiting
C17_Witness ==
    /\ worker["render"].lastData # <<>>
    /\ worker["render"].lastData.op = "appendData"
    /\ worker["render"].viewport # DefaultViewport
    /\ Len(worker["render"].inbox) >= Cardinality(Workers)
    /\ worker["render"].inbox[1].type \in DataTypes


(***************************************************************************)
(* RealtimeDataHandler (src/src/chart/realtime/RealtimeDataHandler.ts)     *)
(* with the sockets it has created and the timers it has set.  rt is a     *)
(* record: the handler's fields                                            *)
(*   options          autoReconnect, reconnectDelay, maxReconnectAttempts  *)
(*   ws               the socket of this.ws (its index in sockets), 0 null *)
(*   state, reconnectAttempts                                              *)
(*   reconnectTimer   the handle in this.reconnectTimer, 0 for null        *)
(*   batchTimer       whether the batch interval is set                    *)
(* the browser's side                                                      *)
(*   urlValid         whether new WebSocket(url) accepts the url           *)
(*   sockets          the sockets created: status, whether onclose is      *)
(*                    still set, whether the socket must fire `error` when *)
(*                    it closes, and (history) how it closed               *)
(*   timers           the reconnect timeouts set and neither fired nor     *)
(*                    cleared, each with its delay; timerCount handles     *)
(*                    have been given out                                  *)
(*   listeners        whether the listener registered at the start is      *)
(*                    still registered                                     *)
(*   tickBuffer       the ticks received since the last batch              *)
(*   currentCandle    <<>> (null), or <<bar>>: the bar being aggregated    *)
(* and history                                                             *)
(*   emitted          the events given to the listeners                    *)
(*   received         every tick handed to processTick, in arrival order   *)
(*   out              the `candle` and `batch` events given to the         *)
(*                    listeners, in order, with their data                 *)
(* (received and out are the history of a handler in use: destroy(), which *)
(* removes the listeners, ends it)                                         *)
(*   gaveUp           the `max reconnection attempts` error was emitted    *)
(*                    and the user has not called connect() since          *)
(*   lastCall         the method the user called last                      *)
(***************************************************************************)
\* stands in for maxReconnectAttempts: 10
MaxReconnectAttempts == 2
\* sockets created in a behaviour of SpecRealtime
MaxSockets == 3
\* the cap of the reconnect delay, in ms
MaxDelay == 30000

\* stands in for candleTimeframe: 60000 (ms)
CandleTimeframe == 2

\* the values of reconnectDelay: the default, and one that reaches the cap at the
\* second attempt
ReconnectDelays == {MaxDelay \div 10, 2 * (MaxDelay \div 3)}

RECURSIVE Pow2(_)
Pow2(n) == IF n = 0 THEN 1 ELSE 2 * Pow2(n - 1)

RealtimeDataHandler(options, urlValid) ==
    [options |-> options, ws |-> 0, state |-> "disconnected", reconnectAttempts |-> 0,
     reconnectTimer |-> 0, batchTimer |-> FALSE,
     urlValid |-> urlValid, sockets |-> <<>>, timers |-> {}, timerCount |-> 0,
     listeners |-> TRUE, emitted |-> {}, gaveUp |-> FALSE, lastCall |-> "new",
     tickBuffer |-> <<>>, currentCandle |-> <<>>, candleStartTime |-> 0,
     received |-> <<>>, out |-> <<>>]

notifyListeners(h, event) ==
    IF h.listeners THEN [h EXCEPT !.emitted = @ \cup {event}] ELSE h

startBatchTimer(h) == [h EXCEPT !.batchTimer = TRUE]

stopBatchTimer(h) == [h EXCEPT !.batchTimer = FALSE]

handleDisconnect(h) ==
    IF ~h.options.autoReconnect
    THEN notifyListeners([h EXCEPT !.state = "disconnected"], "disconnect")
    ELSE IF h.reconnectAttempts >= h.options.maxReconnectAttempts
    THEN [notifyListeners([h EXCEPT !.state = "error"], "error: max attempts")
             EXCEPT !.gaveUp = TRUE]
    ELSE LET attempts == h.reconnectAttempts + 1
             delay    == h.options.reconnectDelay * Pow2(attempts - 1)
             handle   == h.timerCount + 1
         IN  [h EXCEPT !.state = "reconnecting",
                       !.reconnectAttempts = attempts,
                       !.reconnectTimer = handle,
                       !.timerCount = handle,
                       !.timers = @ \cup {[id |-> handle, delay |-> Min(delay, MaxDelay)]}]

handleError(h) ==
    LET e == notifyListeners([h EXCEPT !.state = "error"], "error")
    IN  IF h.options.autoReconnect THEN handleDisconnect(e) ELSE e

\* ws.close(): a socket still connecting is failed, and fires `error` when it
\* has closed
close(socket) ==
    IF socket.status = "connecting" THEN [socket EXCEPT !.status = "closing", !.failed = TRUE]
    ELSE IF socket.status = "open" THEN [socket EXCEPT !.status = "closing"]
    ELSE socket

disconnect(h) ==
    LET a == IF h.reconnectTimer # 0
             THEN [h EXCEPT !.timers = {t \in @ : t.id # h.reconnectTimer},
                            !.reconnectTimer = 0]
             ELSE h
        b == stopBatchTimer(a)
        c == IF b.ws # 0
             THEN [b EXCEPT !.sockets[b.ws] = [close(@) EXCEPT !.onclose = FALSE],
                            !.ws = 0]
             ELSE b
    IN  [c EXCEPT !.state = "disconnected"]

\* connect() with the url already in the options
connect(h) ==
    LET a == IF h.ws # 0 THEN disconnect(h) ELSE h
        b == [a EXCEPT !.state = "connecting"]
    IN  IF ~h.urlValid THEN handleError(b)
        ELSE [b EXCEPT !.sockets = Append(@, [status |-> "connecting", onclose |-> TRUE,
                                              failed |-> FALSE, how |-> "none"]),
                       !.ws = Len(b.sockets) + 1]

onopen(h) ==
    notifyListeners(
        startBatchTimer([h EXCEPT !.state = "connected", !.reconnectAttempts = 0]),
        "connect")

onclose(h, wasClean) ==
    LET a == stopBatchTimer(h)
    IN  IF wasClean THEN notifyListeners([a EXCEPT !.state = "disconnected"], "disconnect")
        ELSE handleDisconnect(a)

onerror(h) == handleError(h)

\* the socket's task that closes it: `error` if the connection failed, then `close`
Closes(h, s, withError, wasClean, how) ==
    LET a == [h EXCEPT !.sockets[s].status = "closed", !.sockets[s].how = how]
        b == IF withError THEN onerror(a) ELSE a
    IN  IF h.sockets[s].onclose THEN onclose(b, wasClean) ELSE b

RealtimeInit ==
    /\ \E autoReconnect \in BOOLEAN, reconnectDelay \in ReconnectDelays,
          urlValid \in BOOLEAN :
          rt = RealtimeDataHandler([autoReconnect |-> autoReconnect,
                                    reconnectDelay |-> reconnectDelay,
                                    maxReconnectAttempts |-> MaxReconnectAttempts,
                                    candleTimeframe |-> CandleTimeframe],
                                   urlValid)
    /\ NoController
    /\ st = NoStore
    /\ lastOp = [op |-> "new", arg |-> <<>>]
    /\ fb = NoStore
    /\ writer = WriterIdle
    /\ reader = ReaderIdle

notFeed == <<st, lastOp, fb, writer, reader, controller, bridge, worker, retired, env, req>>

\* the user calls connect(url)
Connect ==
    /\ Len(rt.sockets) < MaxSockets
    /\ rt' = connect([rt EXCEPT !.gaveUp = FALSE, !.lastCall = "connect"])
    /\ UNCHANGED notFeed

\* the user calls disconnect()
Disconnect ==
    /\ rt' = [disconnect(rt) EXCEPT !.lastCall = "disconnect"]
    /\ UNCHANGED notFeed

\* the user calls destroy()
Destroy ==
    /\ rt' = [disconnect(rt) EXCEPT !.lastCall = "destroy", !.listeners = FALSE,
                                    !.tickBuffer = <<>>, !.currentCandle = <<>>,
                                    !.received = <<>>, !.out = <<>>]
    /\ UNCHANGED notFeed

\* a reconnect timeout fires
ReconnectTimerFires(t) ==
    /\ t \in rt.timers
    /\ Len(rt.sockets) < MaxSockets
    /\ rt' = connect([rt EXCEPT !.timers = @ \ {t}])
    /\ UNCHANGED notFeed

\* the connection of socket s is established
SocketOpens(s) ==
    /\ rt.sockets[s].status = "connecting"
    /\ rt' = onopen([rt EXCEPT !.sockets[s].status = "open"])
    /\ UNCHANGED notFeed

\* socket s fails to connect, or its connection is lost: `error`, then an unclean
\* `close`
SocketFails(s) ==
    /\ rt.sockets[s].status \in {"connecting", "open"}
    /\ rt' = Closes(rt, s, TRUE, FALSE, "failed")
    /\ UNCHANGED notFeed

\* the peer ends the connection of socket s, with a closing handshake or without
SocketEnds(s, wasClean) ==
    /\ rt.sockets[s].status = "open"
    /\ rt' = Closes(rt, s, FALSE, wasClean, IF wasClean THEN "clean" ELSE "dropped")
    /\ UNCHANGED notFeed

\* a socket that close() was called on has closed
SocketClosed(s) ==
    /\ rt.sockets[s].status = "closing"
    /\ rt' = Closes(rt, s, rt.sockets[s].failed, ~rt.sockets[s].failed, "closed")
    /\ UNCHANGED notFeed

RealtimeNext ==
    \/ Connect
    \/ Disconnect
    \/ Destroy
    \/ \E t \in rt.timers : ReconnectTimerFires(t)
    \/ \E s \in DOMAIN rt.sockets : SocketOpens(s)
    \/ \E s \in DOMAIN rt.sockets : SocketFails(s)
    \/ \E s \in DOMAIN rt.sockets, wasClean \in BOOLEAN : SocketEnds(s, wasClean)
    \/ \E s \in DOMAIN rt.sockets : SocketClosed(s)

SpecRealtime == RealtimeInit /\ [][RealtimeNext]_vars

\* in this step socket s, which the handler was using, fails: the socket reports
\* an error followed by a close
LostByFailure(s) ==
    /\ s \in DOMAIN rt.sockets
    /\ rt.sockets[s].onclose
    /\ rt.sockets[s].status \in {"connecting", "open"}
    /\ rt'.sockets[s].how = "failed"

\* C18: with autoReconnect enabled each loss of the connection schedules exactly
\* one reconnect attempt, the k-th consecutive one since the last successful open
\* delayed by min(reconnectDelay * 2^(k-1), 30 s): a failed connection, reported
\* by the socket as an error followed by a close, uses up one attempt and one
\* timer, not two.
C18_OneAttemptPerLoss ==
    [][\A s \in DOMAIN rt.sockets :
          (/\ LostByFailure(s)
           /\ rt.options.autoReconnect
           /\ rt.reconnectAttempts < rt.options.maxReconnectAttempts) =>
              /\ rt'.reconnectAttempts = rt.reconnectAttempts + 1
              /\ \E t \in rt'.timers :
                    /\ rt'.timers = rt.timers \cup {t}
                    /\ t \notin rt.timers
                    /\ t.delay = Min(rt.options.reconnectDelay
                                         * Pow2(rt'.reconnectAttempts - 1), MaxDelay)]_vars

Connecting == \E s \in DOMAIN rt.sockets : rt.sockets[s].status = "connecting"

C20_StaysDisconnected ==
    (rt.state # "absent" /\ rt.lastCall \in {"disconnect", "destroy"}) =>
        /\ rt.state = "disconnected"
        /\ rt.timers = {}
        /\ ~rt.batchTimer
        /\ ~Connecting

(***************************************************************************)
(* Tick aggregation and batching of the RealtimeDataHandler.  A tick is a  *)
(* record [time, price] or [time, price, volume]: volume is optional.      *)
(***************************************************************************)
\* ticks received in a behaviour of SpecTicks
MaxTicks == 3
\* tick times are 0..MaxTickTime
MaxTickTime == 2
\* sockets created in a behaviour of SpecTicks
MaxFeeds == 2
\* `candle` and `batch` events emitted before the batch interval elapses only
\* when there are ticks to deliver
MaxEvents == 2
\* tick prices are 1..MaxTickPrice
MaxTickPrice == 2
\* tick volumes are absent, or 1..MaxTickVolume
MaxTickVolume == 1

Ticks ==
    [time : 0..MaxTickTime, price : 1..MaxTickPrice]
        \cup [time : 0..MaxTickTime, price : 1..MaxTickPrice, volume : 1..MaxTickVolume]

\* tick.volume ?? 0
VolumeOf(tick) == IF "volume" \in DOMAIN tick THEN tick.volume ELSE 0

\* notifyListeners of an event that carries data
notifyListenersOf(h, event) ==
    IF h.listeners
    THEN [h EXCEPT !.emitted = @ \cup {event.type}, !.out = Append(@, event)]
    ELSE h

\* the start of a tick at time t: every tick starts a bar of its own
candleTimeUnfloored(h, tick) == tick.time

\* Math.floor(tick.time / candleTimeframe) * candleTimeframe
candleTime(h, tick) ==
    (tick.time \div h.options.candleTimeframe) * h.options.candleTimeframe

\* an update of the current bar that moves only close and volume
updateExistingCloseOnly(candle, tick) ==
    [candle EXCEPT !.close = tick.price, !.volume = @ + VolumeOf(tick)]

\* the update of the current bar by a tick of its bucket
updateExisting(candle, tick) ==
    [candle EXCEPT !.high = Max(@, tick.price),
                   !.low = Min(@, tick.price),
                   !.close = tick.price,
                   !.volume = @ + VolumeOf(tick)]

updateCandle(h, tick) ==
    IF h.currentCandle = <<>> \/ candleTime(h, tick) # h.candleStartTime
    THEN LET a == IF h.currentCandle # <<>>
                  THEN notifyListenersOf(h, [type |-> "candle",
                                             data |-> h.currentCandle[1]])
                  ELSE h
         IN  [a EXCEPT !.candleStartTime = candleTime(h, tick),
                       !.currentCandle = <<[time |-> candleTime(h, tick),
                                            open |-> tick.price,
                                            high |-> tick.price,
                                            low |-> tick.price,
                                            close |-> tick.price,
                                            volume |-> VolumeOf(tick)]>>]
    ELSE [h EXCEPT !.currentCandle[1] = updateExisting(@, tick)]

processTick(h, tick) ==
    updateCandle(notifyListeners([h EXCEPT !.tickBuffer = Append(@, tick)], "tick"),
                 tick)

\* handleMessage(data) with a parser that gives the ticks of the message: each is
\* processed in turn
RECURSIVE handleMessage(_, _)
handleMessage(h, ticks) ==
    IF ticks = <<>> THEN h
    ELSE handleMessage(processTick([h EXCEPT !.received = Append(@, Head(ticks))],
                                   Head(ticks)),
                       Tail(ticks))

\* a batch callback that leaves the ticks in the buffer
batchKeepsBuffer(h) ==
    IF h.tickBuffer # <<>>
    THEN notifyListenersOf(h, [type |-> "batch", data |-> h.tickBuffer])
    ELSE h

\* the callback of the batch interval, set by startBatchTimer
batchTimerCallback(h) ==
    LET a == IF h.tickBuffer # <<>>
             THEN notifyListenersOf([h EXCEPT !.tickBuffer = <<>>],
                                    [type |-> "batch", data |-> h.tickBuffer])
             ELSE h
    IN  IF a.currentCandle # <<>>
        THEN notifyListenersOf(a, [type |-> "candle",
                                   data |-> [time |-> a.currentCandle[1].time,
                                             open |-> a.currentCandle[1].open,
                                             high |-> a.currentCandle[1].high,
                                             low |-> a.currentCandle[1].low,
                                             close |-> a.currentCandle[1].close,
                                             volume |-> a.currentCandle[1].volume,
                                             isPartial |-> TRUE]])
        ELSE a

TicksInit ==
    /\ rt = RealtimeDataHandler([autoReconnect |-> FALSE,
                                 reconnectDelay |-> MaxDelay \div 10,
                                 maxReconnectAttempts |-> MaxReconnectAttempts,
                                 candleTimeframe |-> CandleTimeframe],
                                TRUE)
    /\ NoController
    /\ st = NoStore
    /\ lastOp = [op |-> "new", arg |-> <<>>]
    /\ fb = NoStore
    /\ writer = WriterIdle
    /\ reader = ReaderIdle

\* the user calls connect(url), at most MaxFeeds times, on a handler not yet
\* destroyed (SpecRealtime has the connect() after destroy())
FeedConnect ==
    /\ Len(rt.sockets) < MaxFeeds
    /\ rt.lastCall # "destroy"
    /\ Connect

\* a message with one or two ticks arrives on the open socket s
SocketMessage(s, ticks) ==
    /\ rt.sockets[s].status = "open"
    /\ Len(rt.received) + Len(ticks) <= MaxTicks
    /\ rt' = handleMessage(rt, ticks)
    /\ UNCHANGED notFeed

\* the batch interval elapses
BatchTimerFires ==
    /\ rt.batchTimer
    /\ rt.tickBuffer # <<>> \/ Len(rt.out) < MaxEvents
    /\ rt' = batchTimerCallback(rt)
    /\ UNCHANGED notFeed

TicksNext ==
    \/ FeedConnect
    \/ Destroy
    \/ \E s \in DOMAIN rt.sockets : SocketOpens(s)
    \/ \E s \in DOMAIN rt.sockets, wasClean \in BOOLEAN : SocketEnds(s, wasClean)
    \/ \E s \in DOMAIN rt.sockets : SocketClosed(s)
    \/ \E s \in DOMAIN rt.sockets, a \in Ticks : SocketMessage(s, <<a>>)
    \/ \E s \in DOMAIN rt.sockets, a \in Ticks, b \in Ticks : SocketMessage(s, <<a, b>>)
    \/ BatchTimerFires

SpecTicks == TicksInit /\ [][TicksNext]_vars

\* the batch interval runs as long as it is set
FairTicks == SpecTicks /\ WF_vars(BatchTimerFires)

\* the bucket of a tick: floor(t / timeframe) * timeframe
Bucket(tick) == (tick.time \div CandleTimeframe) * CandleTimeframe

\* the ticks split into the maximal runs of consecutive ticks of one bucket
RECURSIVE Runs(_)
Runs(ticks) ==
    IF ticks = <<>> THEN <<>>
    ELSE LET n    == Len(ticks)
             prev == Runs(SubSeq(ticks, 1, n - 1))
             m    == Len(prev)
         IN  IF m > 0 /\ Bucket(prev[m][1]) = Bucket(ticks[n])
             THEN [prev EXCEPT ![m] = Append(@, ticks[n])]
             ELSE Append(prev, <<ticks[n]>>)

RECURSIVE TickVolume(_)
TickVolume(ticks) ==
    IF ticks = <<>> THEN 0 ELSE VolumeOf(Head(ticks)) + TickVolume(Tail(ticks))

RECURSIVE BarVolume(_)
BarVolume(bars) ==
    IF bars = <<>> THEN 0 ELSE Head(bars).volume + BarVolume(Tail(bars))

\* the bar of a run of ticks: first and last price, highest and lowest price,
\* the sum of the volumes
BarOf(run) ==
    LET prices == {run[i].price : i \in 1..Len(run)}
    IN  [time |-> Bucket(run[1]),
         open |-> run[1].price,
         high |-> CHOOSE p \in prices : \A q \in prices : q <= p,
         low |-> CHOOSE p \in prices : \A q \in prices : p <= q,
         close |-> run[Len(run)].price,
         volume |-> TickVolume(run)]

IsCompleted(event) == event.type = "candle" /\ "isPartial" \notin DOMAIN event.data
IsPartial(event) == event.type = "candle" /\ "isPartial" \in DOMAIN event.data
IsBatch(event) == event.type = "batch"

\* the bars emitted as completed candles, in order
Completed ==
    LET events == SelectSeq(rt.out, IsCompleted)
    IN  [i \in 1..Len(events) |-> events[i].data]

\* C21: tick-to-bar aggregation is lossless: each tick contributes to exactly one
\* bar, the bar of its bucket at the time it arrives; each bar is emitted as a
\* completed candle exactly once, when the first tick of a different bucket
\* arrives; the volumes of the completed bars and the current bar sum to the
\* volume of all ticks received.  (While the handler is in use: the listener is
\* registered.)
C21_AggregationLossless ==
    rt.listeners =>
        LET runs == Runs(rt.received)
            bars == Completed \o rt.currentCandle
        IN  /\ bars = [i \in 1..Len(runs) |-> BarOf(runs[i])]
            /\ (rt.received # <<>>) => rt.currentCandle # <<>>
            /\ BarVolume(bars) = TickVolume(rt.received)

\* three ticks received: a bar of two ticks has been completed and emitted, the
\* third tick is in the current bar
C21_Witness ==
    /\ rt.listeners
    /\ Len(rt.received) = MaxTicks
    /\ Len(Completed) = 1
    /\ Len(Runs(rt.received)[1]) = 2
    /\ Completed[1].volume > 0
    /\ rt.currentCandle # <<>>

ValidBar(b) ==
    /\ b.low <= Min(b.open, b.close)
    /\ Max(b.open, b.close) <= b.high
    /\ b.volume >= 0

RECURSIVE Delivered(_)
Delivered(events) ==
    IF events = <<>> THEN <<>>
    ELSE IF IsBatch(Head(events)) THEN Head(events).data \o Delivered(Tail(events))
    ELSE Delivered(Tail(events))

\* a tick has been received that no batch event has carried
Undelivered == rt.listeners /\ Len(Delivered(rt.out)) < Len(rt.received)

\* C23: every tick received is carried by exactly one batch event: the batches
\* deliver the ticks in arrival order, none twice, no batch is empty, and a tick
\* received is delivered by the next firing of the batch timer.
C23_EveryTickInOneBatch ==
    /\ [](rt.listeners =>
            /\ rt.received = Delivered(rt.out) \o rt.tickBuffer
            /\ \A i \in 1..Len(rt.out) : IsBatch(rt.out[i]) => rt.out[i].data # <<>>)
    /\ [][(rt.batchTimer /\ rt.listeners /\ rt'.out # rt.out /\ rt'.received = rt.received)
             => Delivered(rt'.out) = rt.received]_vars
    /\ Undelivered ~> ~Undelivered

(***************************************************************************)
(* Zoom and pan of the TimeScale and the PriceScale (src/unnamed/part_016) *)
(* of a chart.  The numbers are exact fractions, so what is checked is the *)
(* arithmetic of the code without its rounding.  In SpecScales controller  *)
(* holds the two scales and lastOp the last call: its arguments, the       *)
(* visible range before it, whether clampVisibleRange changed the range,   *)
(* the number of calls so far, and the same of the call before it (prev).  *)
(***************************************************************************)
\* calls made on the scales in a behaviour of SpecScales
MaxScaleOps == 3
\* minDuration is dataDuration * 0.01: one part in MinDurationParts
MinDurationParts == 100
\* ... or one minute; stands in for 60000 (ms)
MinDurationMs == 60
\* minSpan is the data range * 0.001: one part in MinSpanParts
MinSpanParts == 1000
\* the visible minimum of a log scale is set to 0.0001: one part in LogFloorParts
LogFloorParts == 10000

RECURSIVE GCD(_, _)
GCD(a, b) == IF b = 0 THEN a ELSE GCD(b, a % b)

Abs(n) == IF n < 0 THEN -n ELSE n

\* the fraction in lowest terms, with a positive denominator
Reduce(r) ==
    LET g == GCD(Abs(r.num), Abs(r.den))
        s == IF r.den < 0 THEN -1 ELSE 1
    IN  Ratio((s * r.num) \div g, (s * r.den) \div g)

Whole(n) == Ratio(n, 1)

\* the numerators of two fractions in lowest terms over their least common
\* denominator
Over(a, b) ==
    LET g == GCD(a.den, b.den)
    IN  [a |-> a.num * (b.den \div g), b |-> b.num * (a.den \div g),
         den |-> a.den * (b.den \div g)]

RatPlus(a, b) == LET o == Over(a, b) IN Reduce(Ratio(o.a + o.b, o.den))
RatMinus(a, b) == LET o == Over(a, b) IN Reduce(Ratio(o.a - o.b, o.den))
RatTimes(a, b) ==
    LET x == Reduce(Ratio(a.num, b.den))
        y == Reduce(Ratio(b.num, a.den))
    IN  Reduce(Ratio(x.num * y.num, x.den * y.den))
RatHalf(a) == Reduce(Ratio(a.num, 2 * a.den))
RatLess(a, b) == LET o == Over(a, b) IN o.a < o.b
RatEq(a, b) == LET o == Over(a, b) IN o.a = o.b
RatMin(a, b) == IF RatLess(b, a) THEN b ELSE a

\* TimeScale.clampVisibleRange
TimeScale_clampVisibleRange(t) ==
    LET duration      == RatMinus(t.visibleMaxTime, t.visibleMinTime)
        dataDuration  == t.maxTime - t.minTime
        minDuration   == RatMin(Reduce(Ratio(dataDuration, MinDurationParts)),
                                Whole(MinDurationMs))
        center        == RatHalf(RatPlus(t.visibleMinTime, t.visibleMaxTime))
        a == IF RatLess(duration, minDuration)
             THEN [t EXCEPT !.visibleMinTime = RatMinus(center, RatHalf(minDuration)),
                            !.visibleMaxTime = RatPlus(center, RatHalf(minDuration))]
             ELSE t
        b == IF RatLess(a.visibleMinTime, Whole(a.minTime))
             THEN [a EXCEPT !.visibleMaxTime =
                                RatPlus(@, RatMinus(Whole(a.minTime), a.visibleMinTime)),
                            !.visibleMinTime = Whole(a.minTime)]
             ELSE a
        paddedMaxTime == Reduce(Ratio(RightPaddingParts * t.maxTime + dataDuration,
                                      RightPaddingParts))
    IN  IF RatLess(paddedMaxTime, b.visibleMaxTime)
        THEN [b EXCEPT !.visibleMinTime =
                           RatMinus(@, RatMinus(b.visibleMaxTime, paddedMaxTime)),
                       !.visibleMaxTime = paddedMaxTime]
        ELSE b

\* the default of zoom's center: the middle of the visible range
TimeScale_middle(t) == RatHalf(RatPlus(t.visibleMinTime, t.visibleMaxTime))

\* a zoom that scales both sides by the duration right of the center
TimeScale_zoomedByRight(t, factor, center) ==
    LET rightDuration == RatMinus(t.visibleMaxTime, center)
    IN  [t EXCEPT !.visibleMinTime = RatMinus(center, RatTimes(rightDuration, factor)),
                  !.visibleMaxTime = RatPlus(center, RatTimes(rightDuration, factor))]

\* zoom before its clampVisibleRange
TimeScale_zoomed(t, factor, center) ==
    LET leftDuration  == RatMinus(center, t.visibleMinTime)
        rightDuration == RatMinus(t.visibleMaxTime, center)
    IN  [t EXCEPT !.visibleMinTime = RatMinus(center, RatTimes(leftDuration, factor)),
                  !.visibleMaxTime = RatPlus(center, RatTimes(rightDuration, factor))]

TimeScale_zoom(t, factor, center) ==
    TimeScale_clampVisibleRange(TimeScale_zoomed(t, factor, center))

\* pan before its clampVisibleRange
TimeScale_panned(t, deltaTime) ==
    [t EXCEPT !.visibleMinTime = RatPlus(@, Whole(deltaTime)),
              !.visibleMaxTime = RatPlus(@, Whole(deltaTime))]

TimeScale_pan(t, deltaTime) == TimeScale_clampVisibleRange(TimeScale_panned(t, deltaTime))

TimeScale_setVisibleRange(t, from, to) ==
    [t EXCEPT !.visibleMinTime = Whole(from), !.visibleMaxTime = Whole(to)]

\* PriceScale.clampVisibleRange
PriceScale_clampVisibleRange(p) ==
    LET span    == RatMinus(p.visibleMaxPrice, p.visibleMinPrice)
        minSpan == Reduce(Ratio(p.maxPrice - p.minPrice, MinSpanParts))
        center  == RatHalf(RatPlus(p.visibleMinPrice, p.visibleMaxPrice))
        a == IF RatLess(span, minSpan)
             THEN [p EXCEPT !.visibleMinPrice = RatMinus(center, RatHalf(minSpan)),
                            !.visibleMaxPrice = RatPlus(center, RatHalf(minSpan))]
             ELSE p
    IN  IF a.logScale /\ ~RatLess(Whole(0), a.visibleMinPrice)
        THEN [a EXCEPT !.visibleMinPrice = Ratio(1, LogFloorParts)]
        ELSE a

PriceScale_middle(p) == RatHalf(RatPlus(p.visibleMinPrice, p.visibleMaxPrice))

\* zoom before its clampVisibleRange
PriceScale_zoomed(p, factor, center) ==
    LET lowerSpan == RatMinus(center, p.visibleMinPrice)
        upperSpan == RatMinus(p.visibleMaxPrice, center)
    IN  [p EXCEPT !.visibleMinPrice = RatMinus(center, RatTimes(lowerSpan, factor)),
                  !.visibleMaxPrice = RatPlus(center, RatTimes(upperSpan, factor))]

PriceScale_zoom(p, factor, center) ==
    PriceScale_clampVisibleRange(PriceScale_zoomed(p, factor, center))

PriceScale_panned(p, deltaPrice) ==
    [p EXCEPT !.visibleMinPrice = RatPlus(@, Whole(deltaPrice)),
              !.visibleMaxPrice = RatPlus(@, Whole(deltaPrice))]

PriceScale_pan(p, deltaPrice) ==
    PriceScale_clampVisibleRange(PriceScale_panned(p, deltaPrice))

\* the data ranges of the time scale: 1 % of the span under a minute, and over
TimeDataRanges == {<<0, 1000>>, <<0, 12000>>}
\* the data ranges of the price scale
PriceDataRanges == {<<1, 100>>, <<100, 200>>}
ZoomFactors == {Ratio(1, 2), Ratio(2, 1), Ratio(1, 16)}
TimeCenters == {350, 525}
TimeDeltas == {-200, 200, 2000}
\* visible ranges inside the data range, as a caller sets them
TimeVisibleRanges == {<<900, 1050>>, <<100, 600>>}
PriceCenters == {50}
PriceDeltas == {-150, 50}

NoCall == [op |-> "new", arg |-> <<>>, before |-> <<>>, clamped |-> FALSE]

\* the call before the last one
Earlier == [op |-> lastOp.op, arg |-> lastOp.arg, before |-> lastOp.before,
            clamped |-> lastOp.clamped]

\* the scales as their constructors leave them, given the data ranges
ScalesInit ==
    /\ \E tr \in TimeDataRanges, pr \in PriceDataRanges, logScale \in BOOLEAN :
          controller =
              [pc |-> "scales",
               timeScale |-> [NewTimeScale EXCEPT !.minTime = tr[1], !.maxTime = tr[2],
                                                  !.visibleMinTime = Whole(tr[1]),
                                                  !.visibleMaxTime = Whole(tr[2])],
               priceScale |-> [NewPriceScale EXCEPT !.minPrice = pr[1],
                                                    !.maxPrice = pr[2],
                                                    !.visibleMinPrice = Whole(pr[1]),
                                                    !.visibleMaxPrice = Whole(pr[2]),
                                                    !.logScale = logScale]]
    /\ lastOp = [op |-> "new", arg |-> <<>>, before |-> <<>>, clamped |-> FALSE, n |-> 0,
                 prev |-> NoCall]
    /\ bridge = <<>>
    /\ worker = <<>>
    /\ retired = <<>>
    /\ env = <<>>
    /\ req = NoRequests
    /\ rt = NoFeed
    /\ st = NoStore
    /\ fb = NoStore
    /\ writer = WriterIdle
    /\ reader = ReaderIdle

notScales == <<st, fb, writer, reader, bridge, worker, retired, env, req, rt>>

TimeVisible(t) == <<t.visibleMinTime, t.visibleMaxTime>>
PriceVisible(p) == <<p.visibleMinPrice, p.visibleMaxPrice>>

\* a call on the time scale: t is the scale after it, raw the scale before the
\* call's clampVisibleRange
TimeCall(op, arg, raw, t) ==
    /\ lastOp.n < MaxScaleOps
    /\ controller' = [controller EXCEPT !.timeScale = t]
    /\ lastOp' = [op |-> op, arg |-> arg, before |-> TimeVisible(controller.timeScale),
                  clamped |-> TimeVisible(t) # TimeVisible(raw), n |-> lastOp.n + 1,
                  prev |-> Earlier]
    /\ UNCHANGED notScales

PriceCall(op, arg, raw, p) ==
    /\ lastOp.n < MaxScaleOps
    /\ controller' = [controller EXCEPT !.priceScale = p]
    /\ lastOp' = [op |-> op, arg |-> arg, before |-> PriceVisible(controller.priceScale),
                  clamped |-> PriceVisible(p) # PriceVisible(raw), n |-> lastOp.n + 1,
                  prev |-> Earlier]
    /\ UNCHANGED notScales

TimeZoom(factor, center) ==
    TimeCall("TimeScale.zoom", <<factor, center>>,
             TimeScale_zoomed(controller.timeScale, factor, center),
             TimeScale_zoom(controller.timeScale, factor, center))

\* zoom(factor) without a center
TimeZoomMiddle(factor) == TimeZoom(factor, TimeScale_middle(controller.timeScale))

TimePan(deltaTime) ==
    TimeCall("TimeScale.pan", <<deltaTime>>,
             TimeScale_panned(controller.timeScale, deltaTime),
             TimeScale_pan(controller.timeScale, deltaTime))

TimeFitContent ==
    LET t == TimeScale_fitContent(controller.timeScale)
        r == [t EXCEPT !.visibleMinTime = Reduce(@), !.visibleMaxTime = Reduce(@)]
    IN  TimeCall("TimeScale.fitContent", <<>>, r, r)

TimeSetVisibleRange(from, to) ==
    /\ controller.timeScale.minTime <= from
    /\ RightPaddingParts * to <= RightPaddingParts * controller.timeScale.maxTime
                                    + (controller.timeScale.maxTime
                                       - controller.timeScale.minTime)
    /\ LET t == TimeScale_setVisibleRange(controller.timeScale, from, to)
       IN  TimeCall("TimeScale.setVisibleRange", <<from, to>>, t, t)

PriceZoom(factor, center) ==
    PriceCall("PriceScale.zoom", <<factor, center>>,
              PriceScale_zoomed(controller.priceScale, factor, center),
              PriceScale_zoom(controller.priceScale, factor, center))

PriceZoomMiddle(factor) == PriceZoom(factor, PriceScale_middle(controller.priceScale))

PricePan(deltaPrice) ==
    PriceCall("PriceScale.pan", <<deltaPrice>>,
              PriceScale_panned(controller.priceScale, deltaPrice),
              PriceScale_pan(controller.priceScale, deltaPrice))

PriceFitContent ==
    LET p == PriceScale_fitContent(controller.priceScale)
        r == [p EXCEPT !.visibleMinPrice = Reduce(@), !.visibleMaxPrice = Reduce(@)]
    IN  PriceCall("PriceScale.fitContent", <<>>, r, r)

ScalesNext ==
    \/ \E factor \in ZoomFactors, center \in TimeCenters : TimeZoom(factor, Whole(center))
    \/ \E factor \in ZoomFactors : TimeZoomMiddle(factor)
    \/ \E deltaTime \in TimeDeltas : TimePan(deltaTime)
    \/ TimeFitContent
    \/ \E r \in TimeVisibleRanges : TimeSetVisibleRange(r[1], r[2])
    \/ \E factor \in ZoomFactors, center \in PriceCenters : PriceZoom(factor, Whole(center))
    \/ \E factor \in ZoomFactors : PriceZoomMiddle(factor)
    \/ \E deltaPrice \in PriceDeltas : PricePan(deltaPrice)
    \/ PriceFitContent

SpecScales == ScalesInit /\ [][ScalesNext]_vars

RatLessEq(a, b) == ~RatLess(b, a)

\* minSpan of the time scale: the smaller of 1 % of the data span and 1 minute
MinSpan(t) ==
    RatMin(Reduce(Ratio(t.maxTime - t.minTime, MinDurationParts)), Whole(MinDurationMs))

\* maxData + rightPadding * dataSpan
PaddedMax(t) ==
    Reduce(Ratio(RightPaddingParts * t.maxTime + (t.maxTime - t.minTime),
                 RightPaddingParts))

\* C24: after any sequence of pan and zoom operations on the time scale (data
\* range with minData < maxData) the visible range has from < to,
\* to - from >= minSpan, from >= minData and to <= maxData + rightPadding * span.
C24_TimeRangeClamped ==
    lastOp.op \in {"TimeScale.pan", "TimeScale.zoom"} =>
        LET t == controller.timeScale
        IN  /\ RatLess(t.visibleMinTime, t.visibleMaxTime)
            /\ RatLessEq(MinSpan(t), RatMinus(t.visibleMaxTime, t.visibleMinTime))
            /\ RatLessEq(Whole(t.minTime), t.visibleMinTime)
            /\ RatLessEq(t.visibleMaxTime, PaddedMax(t))

\* C25: a pan that would push the visible time range past a data bound is
\* absorbed: the range stops at that bound and the opposite edge moves by the
\* same amount, so that a pan never changes the visible duration (of a range at
\* least minSpan wide); a pan that stays inside the bounds moves both edges by
\* its delta.
C25_PanAbsorbed ==
    (/\ lastOp.op = "TimeScale.pan"
     /\ RatLessEq(MinSpan(controller.timeScale),
                  RatMinus(lastOp.before[2], lastOp.before[1]))) =>
        LET t     == controller.timeScale
            from  == RatPlus(lastOp.before[1], Whole(lastOp.arg[1]))
            to    == RatPlus(lastOp.before[2], Whole(lastOp.arg[1]))
            left  == RatLess(from, Whole(t.minTime))
            right == RatLess(PaddedMax(t), to)
        IN  /\ RatMinus(t.visibleMaxTime, t.visibleMinTime)
                  = RatMinus(lastOp.before[2], lastOp.before[1])
            /\ left => t.visibleMinTime = Whole(t.minTime)
            /\ right => t.visibleMaxTime = PaddedMax(t)
            /\ (~left /\ ~right) => TimeVisible(t) = <<from, to>>

\* the last two calls were zoom(f, c) and zoom(1/f, c) on the same scale
ZoomedThereAndBack(op) ==
    /\ lastOp.op = op
    /\ lastOp.prev.op = op
    /\ lastOp.arg[2] = lastOp.prev.arg[2]
    /\ RatTimes(lastOp.arg[1], lastOp.prev.arg[1]) = Whole(1)

\* the visible range of the scale the last call was made on
Visible ==
    IF lastOp.op = "TimeScale.zoom" THEN TimeVisible(controller.timeScale)
    ELSE PriceVisible(controller.priceScale)

C27_PriceRangeValid ==
    LET p == controller.priceScale
    IN  /\ RatLessEq(p.visibleMinPrice, p.visibleMaxPrice)
        /\ p.logScale => RatLess(Whole(0), p.visibleMinPrice)

(***************************************************************************)
(* M4 decimation as a pure function: decimateM4 of the compute worker       *)
(* (src/unnamed/part_006:466-522) applied to series of bars.  lastOp keeps  *)
(* the argument series, the target count and the series returned.          *)
(***************************************************************************)
MaxPattern == 4

SourceCounts == {1, 2, 3, 5, 8, 15}

TargetCounts == {1, 2, 3, 4, 11}

\* bar i (0-based) of the series of pattern p: small whole numbers, each of
\* them a float32 value, with low <= open, close <= high
PatternBar(i, p) ==
    LET open == 10 + ((i * p) % 3)
    IN  [time |-> i + 1, open |-> open, high |-> open + 2 + ((i + p) % 3),
         low |-> open - 1 - ((i * p) % 2), close |-> open + 1 - ((i + p) % 2),
         volume |-> 1 + ((i + p) % 2)]

\* the OHLC payload of count bars: six floats a bar
BarsData(count, p) ==
    [n \in 1..(count * FLOATS_PER_CANDLE) |->
        Field(PatternBar((n - 1) \div FLOATS_PER_CANDLE, p), (n - 1) % FLOATS_PER_CANDLE)]

DecimateInit ==
    /\ \E count \in SourceCounts, p \in 1..MaxPattern :
          lastOp = [op |-> "input", data |-> BarsData(count, p), targetCount |-> 0,
                    result |-> <<>>]
    /\ NoController
    /\ env = <<>>
    /\ req = NoRequests
    /\ rt = NoFeed
    /\ st = NoStore
    /\ fb = NoStore
    /\ writer = WriterIdle
    /\ reader = ReaderIdle

Decimate(targetCount) ==
    /\ lastOp' = [op |-> "decimateM4", data |-> lastOp.data, targetCount |-> targetCount,
                  result |-> decimateM4(lastOp.data, targetCount)]
    /\ UNCHANGED <<st, fb, writer, reader, controller, bridge, worker, retired, env, req,
                   rt>>

DecimateNext == \E targetCount \in TargetCounts : Decimate(targetCount)

SpecDecimate == DecimateInit /\ [][DecimateNext]_vars

BarCount(data) == Len(data) \div FLOATS_PER_CANDLE

BarAt(data, i) == LoadCandle(data, i * FLOATS_PER_CANDLE)

RECURSIVE SumVolume(_, _, _)
SumVolume(data, from, to) ==
    IF from >= to THEN 0 ELSE BarAt(data, from).volume + SumVolume(data, from + 1, to)

\* the bar the spec gives for source indices from .. to - 1
M4Bar(data, from, to) ==
    [time   |-> BarAt(data, from).time,
     open   |-> BarAt(data, from).open,
     high   |-> MaxOf({BarAt(data, i).high : i \in from..(to - 1)}),
     low    |-> MinOf({BarAt(data, i).low : i \in from..(to - 1)}),
     close  |-> BarAt(data, to - 1).close,
     volume |-> SumVolume(data, from, to)]

\* floor(b * count / targetCount)
BucketStart(b, count, targetCount) == (b * count) \div targetCount

\* C28: M4 decimation of count bars to targetCount returns the source unchanged
\* when count <= targetCount; otherwise it returns targetCount bars, output bar
\* b is (first.time, first.open, max high, min low, last.close, sum of volume)
\* over the source indices [floor(b*count/targetCount),
\* floor((b+1)*count/targetCount)), every such bucket is non-empty, and total
\* volume, the overall max high and the overall min low are conserved.
C28_M4Decimation ==
    lastOp.op = "decimateM4" =>
        LET data   == lastOp.data
            target == lastOp.targetCount
            result == lastOp.result
            count  == BarCount(data)
        IN  IF count <= target THEN result = data
            ELSE /\ Len(result) = target * FLOATS_PER_CANDLE
                 /\ \A b \in 0..(target - 1) :
                       /\ BucketStart(b, count, target) < BucketStart(b + 1, count, target)
                       /\ BarAt(result, b) = M4Bar(data, BucketStart(b, count, target),
                                                   BucketStart(b + 1, count, target))
                 /\ SumVolume(result, 0, target) = SumVolume(data, 0, count)
                 /\ MaxOf({BarAt(result, b).high : b \in 0..(target - 1)})
                        = MaxOf({BarAt(data, i).high : i \in 0..(count - 1)})
                 /\ MinOf({BarAt(result, b).low : b \in 0..(target - 1)})
                        = MinOf({BarAt(data, i).low : i \in 0..(count - 1)})

(***************************************************************************)
(* The indicator functions of the compute worker (src/unnamed/part_006) as  *)
(* pure functions on a series of closes.  An entry of a series is a         *)
(* fraction in lowest terms or NaN, kept as the fraction 0/0; arithmetic    *)
(* with a NaN operand gives NaN.  The values are exact: the rounding of a   *)
(* number stored into a Float32Array, which keeps a number a number, is     *)
(* left out.  Indices are 0-based as in the code.                           *)
(***************************************************************************)
MaxCloses == 5

MaxClose == 3

MaxPeriod == 3

MaxSignal == 2

RatNaN == Ratio(0, 0)

IsNaN(x) == x.den = 0

NaNPlus(a, b) == IF IsNaN(a) \/ IsNaN(b) THEN RatNaN ELSE RatPlus(a, b)

NaNMinus(a, b) == IF IsNaN(a) \/ IsNaN(b) THEN RatNaN ELSE RatMinus(a, b)

NaNTimes(a, b) == IF IsNaN(a) \/ IsNaN(b) THEN RatNaN ELSE RatTimes(a, b)

\* a / b; 0 / 0 is NaN
NaNOver(a, b) ==
    IF IsNaN(a) \/ IsNaN(b) \/ (b.num = 0 /\ a.num = 0) THEN RatNaN
    ELSE RatTimes(a, Ratio(b.den, b.num))

\* sum += data[i] for i < n
RECURSIVE SumFirst(_, _)
SumFirst(data, n) ==
    IF n = 0 THEN Whole(0) ELSE NaNPlus(SumFirst(data, n - 1), data[n])

\* result[i] of calculateEMA: NaN below period - 1, the mean of the first
\* period entries at period - 1, the recurrence above it
RECURSIVE EMAAt(_, _, _)
EMAAt(data, period, i) ==
    IF i < period - 1 THEN RatNaN
    ELSE IF i = period - 1 THEN NaNOver(SumFirst(data, period), Whole(period))
    ELSE LET previous   == EMAAt(data, period, i - 1)
             multiplier == Reduce(Ratio(2, period + 1))
         IN  NaNPlus(NaNTimes(NaNMinus(data[i + 1], previous), multiplier), previous)

\* an EMA that copies its input from index period - 1 on
calculateEMAUnsmoothed(data, period) ==
    [n \in 1..Len(data) |-> IF n < period THEN RatNaN ELSE data[n]]

calculateEMA(data, period) == [n \in 1..Len(data) |-> EMAAt(data, period, n - 1)]

\* gains[i] and losses[i] of calculateRSI; both are 0 at index 0 and for a
\* change that is NaN
Gain(data, i) ==
    LET change == NaNMinus(data[i + 1], data[i])
    IN  IF i >= 1 /\ ~IsNaN(change) /\ RatLess(Whole(0), change) THEN change ELSE Whole(0)

Loss(data, i) ==
    LET change == NaNMinus(data[i + 1], data[i])
    IN  IF i >= 1 /\ ~IsNaN(change) /\ RatLess(change, Whole(0))
        THEN RatMinus(Whole(0), change) ELSE Whole(0)

\* avgGain and avgLoss before the division by period: the sums over
\* 1 <= i <= period, i < data.length
RECURSIVE FirstSums(_, _)
FirstSums(data, i) ==
    IF i = 0 THEN [gain |-> Whole(0), loss |-> Whole(0)]
    ELSE LET sums == FirstSums(data, i - 1)
         IN  [gain |-> RatPlus(sums.gain, Gain(data, i)),
              loss |-> RatPlus(sums.loss, Loss(data, i))]

\* avgGain and avgLoss in the pass of the RSI loop at index i >= period
RECURSIVE Averages(_, _, _)
Averages(data, period, i) ==
    IF i = period
    THEN LET sums == FirstSums(data, Min(period, Len(data) - 1))
         IN  [gain |-> NaNOver(sums.gain, Whole(period)),
              loss |-> NaNOver(sums.loss, Whole(period))]
    ELSE LET a == Averages(data, period, i - 1)
         IN  [gain |-> NaNOver(NaNPlus(NaNTimes(a.gain, Whole(period - 1)), Gain(data, i)),
                               Whole(period)),
              loss |-> NaNOver(NaNPlus(NaNTimes(a.loss, Whole(period - 1)), Loss(data, i)),
                               Whole(period))]

\* result[i] of calculateRSI: the Float32Array starts as zeros, the first loop
\* stores NaN at 1 <= i <= period, the RSI loop stores a value at i >= period
RSIAt(data, period, i) ==
    IF i >= period
    THEN LET a == Averages(data, period, i)
         IN  IF a.loss = Whole(0) THEN Whole(100)
             ELSE LET rs == NaNOver(a.gain, a.loss)
                  IN  NaNMinus(Whole(100), NaNOver(Whole(100), NaNPlus(Whole(1), rs)))
    ELSE IF i >= 1 THEN RatNaN
    ELSE Whole(0)

calculateRSI(data, period) == [n \in 1..Len(data) |-> RSIAt(data, period, n - 1)]

\* [macdLine, signalLine, histogram] of every bar, interleaved
calculateMACD(data, fastPeriod, slowPeriod, signalPeriod) ==
    LET fastEMA    == calculateEMA(data, fastPeriod)
        slowEMA    == calculateEMA(data, slowPeriod)
        macdLine   == [n \in 1..Len(data) |-> NaNMinus(fastEMA[n], slowEMA[n])]
        signalLine == calculateEMA(macdLine, signalPeriod)
        histogram  == [n \in 1..Len(data) |-> NaNMinus(macdLine[n], signalLine[n])]
    IN  [n \in 1..(3 * Len(data)) |->
            LET i == (n - 1) \div 3
            IN  CASE (n - 1) % 3 = 0 -> macdLine[i + 1]
                  [] (n - 1) % 3 = 1 -> signalLine[i + 1]
                  [] OTHER -> histogram[i + 1]]

\* the series of closes: every series of at most MaxCloses whole closes,
\* and the closes 1 .. 5 of the documented EMA(3) example
ExampleCloses == <<Whole(1), Whole(2), Whole(3), Whole(4), Whole(5)>>

CloseSeries ==
    UNION {[1..n -> {Whole(c) : c \in 1..MaxClose}] : n \in 0..MaxCloses}
        \cup {ExampleCloses}

IndicatorsInit ==
    /\ \E data \in CloseSeries :
          lastOp = [op |-> "input", data |-> data, args |-> <<>>, result |-> <<>>]
    /\ NoController
    /\ env = <<>>
    /\ req = NoRequests
    /\ rt = NoFeed
    /\ st = NoStore
    /\ fb = NoStore
    /\ writer = WriterIdle
    /\ reader = ReaderIdle

notLastOp == <<st, fb, writer, reader, controller, bridge, worker, retired, env, req, rt>>

ComputeEMA(period) ==
    /\ lastOp' = [op |-> "EMA", data |-> lastOp.data, args |-> <<period>>,
                  result |-> calculateEMA(lastOp.data, period)]
    /\ UNCHANGED notLastOp

ComputeRSI(period) ==
    /\ lastOp' = [op |-> "RSI", data |-> lastOp.data, args |-> <<period>>,
                  result |-> calculateRSI(lastOp.data, period)]
    /\ UNCHANGED notLastOp

ComputeMACD(fastPeriod, slowPeriod, signalPeriod) ==
    /\ fastPeriod < slowPeriod
    /\ lastOp' = [op |-> "MACD", data |-> lastOp.data,
                  args |-> <<fastPeriod, slowPeriod, signalPeriod>>,
                  result |-> calculateMACD(lastOp.data, fastPeriod, slowPeriod,
                                           signalPeriod)]
    /\ UNCHANGED notLastOp

IndicatorsNext ==
    \/ \E period \in 1..MaxPeriod : ComputeEMA(period)
    \/ \E period \in 1..MaxPeriod : ComputeRSI(period)
    \/ \E fastPeriod \in 1..MaxPeriod, slowPeriod \in 1..MaxPeriod,
          signalPeriod \in 1..MaxSignal :
          ComputeMACD(fastPeriod, slowPeriod, signalPeriod)

SpecIndicators == IndicatorsInit /\ [][IndicatorsNext]_vars

\* C29: for RSI with period P the first P entries of the result (indices 0 to
\* P - 1, or every entry when the input has at most P closes) are NaN.
C29_RSILeadingNaN ==
    lastOp.op = "RSI" =>
        \A i \in 0..(Min(lastOp.args[1], Len(lastOp.data)) - 1) :
            IsNaN(lastOp.result[i + 1])

\* entry i of series k (0 the MACD line, 1 the signal line, 2 the histogram)
MACDEntry(k, i) == lastOp.result[3 * i + k + 1]

\* C30: for MACD(fast, slow, signal) with fast < slow, NaN entries occur only as
\* a leading prefix of each of the three series: the MACD line is a number from
\* index slow - 1 on, the signal line and the histogram are numbers from index
\* slow + signal - 2 on.
C30_MACDLeadingNaN ==
    lastOp.op = "MACD" =>
        LET len    == Len(lastOp.data)
            slow   == lastOp.args[2]
            signal == lastOp.args[3]
        IN  /\ \A k \in 0..2 : \A i \in 0..(len - 1) : \A j \in i..(len - 1) :
                   IsNaN(MACDEntry(k, j)) => IsNaN(MACDEntry(k, i))
            /\ \A i \in (slow - 1)..(len - 1) : ~IsNaN(MACDEntry(0, i))
            /\ \A i \in (slow + signal - 2)..(len - 1) :
                   ~IsNaN(MACDEntry(1, i)) /\ ~IsNaN(MACDEntry(2, i))

\* C31: EMA with period P: the entries 0 .. P - 2 are NaN, entry P - 1 is the
\* mean of the first P closes, every later entry i is
\* a * data[i] + (1 - a) * result[i - 1] with a = 2 / (P + 1); EMA(3) of
\* [1, 2, 3, 4, 5] is [NaN, NaN, 2, 3, 4]; when P exceeds the input length every
\* entry is NaN.
C31_EMA ==
    lastOp.op = "EMA" =>
        LET data   == lastOp.data
            result == lastOp.result
            P      == lastOp.args[1]
            a      == Reduce(Ratio(2, P + 1))
        IN  /\ Len(result) = Len(data)
            /\ \A i \in 0..(Len(data) - 1) :
                  IF i < P - 1 THEN IsNaN(result[i + 1])
                  ELSE IF i = P - 1
                  THEN RatTimes(result[i + 1], Whole(P)) = SumFirst(data, P)
                  ELSE result[i + 1] =
                           RatPlus(RatTimes(a, data[i + 1]),
                                   RatTimes(RatMinus(Whole(1), a), result[i]))
            /\ (data = ExampleCloses /\ P = 3) =>
                   result = <<RatNaN, RatNaN, Whole(2), Whole(3), Whole(4)>>

C31_Witness ==
    /\ lastOp.op = "EMA"
    /\ lastOp.data = ExampleCloses
    /\ lastOp.args = <<3>>
    /\ lastOp.result = <<RatNaN, RatNaN, Whole(2), Whole(3), Whole(4)>>

(***************************************************************************)
(* LODManager.selectLevel (src/unnamed/part_024:107-133).  The manager is   *)
(* kept in `controller`: the minVisibleCount of its levels (level id i is   *)
(* entry i + 1), the two options and currentLevelId.  The thresholds are    *)
(* compared in hundredths, since hysteresisAmount is hysteresis / 100 of    *)
(* the visible count.  lastOp keeps the last call and the one before it.    *)
(***************************************************************************)
LevelSets == {<<0, 5, 20, 50>>, <<0, 20, 5>>}

Hystereses == {0, 10, 50}

VisibleCounts == {0, 4, 5, 6, 18, 20, 22, 25, 45, 50, 55, 60}

LODManager(options) ==
    [pc |-> "lod", levels |-> options.levels, autoSwitch |-> options.autoSwitch,
     hysteresis |-> options.hysteresis, currentLevelId |-> 0]

\* a comparison that ignores which side of the current level i lies on
ReachedWithoutBand(m, i, visibleDataCount) ==
    visibleDataCount >= m.levels[i + 1]

\* visibleDataCount >= threshold for level i: the level's minVisibleCount plus
\* the hysteresis amount above the current level, minus it at or below
Reached(m, i, visibleDataCount) ==
    IF i > m.currentLevelId
    THEN 100 * visibleDataCount >= 100 * m.levels[i + 1] + m.hysteresis * visibleDataCount
    ELSE 100 * visibleDataCount >= 100 * m.levels[i + 1] - m.hysteresis * visibleDataCount

\* the lowest level whose threshold is reached
lowestLevel(m, visibleDataCount) ==
    LET reached == {i \in 0..(Len(m.levels) - 1) : Reached(m, i, visibleDataCount)}
    IN  IF reached = {} THEN 0 ELSE MinOf(reached)

\* the loop from the last level down: the first level whose threshold is
\* reached, level 0 when none is
selectedLevel(m, visibleDataCount) ==
    LET reached == {i \in 0..(Len(m.levels) - 1) : Reached(m, i, visibleDataCount)}
    IN  IF reached = {} THEN 0 ELSE MaxOf(reached)

\* the manager after selectLevel; the call returns its currentLevelId
selectLevel(m, visibleDataCount) ==
    IF ~m.autoSwitch THEN m
    ELSE [m EXCEPT !.currentLevelId = selectedLevel(m, visibleDataCount)]

NoSelect == [op |-> "new", arg |-> 0, before |-> 0, result |-> 0]

LODInit ==
    /\ \E levels \in LevelSets, autoSwitch \in BOOLEAN, hysteresis \in Hystereses :
          controller = LODManager([levels |-> levels, autoSwitch |-> autoSwitch,
                                   hysteresis |-> hysteresis])
    /\ lastOp = [op |-> "new", arg |-> 0, before |-> 0, result |-> 0, prev |-> NoSelect]
    /\ bridge = <<>>
    /\ worker = <<>>
    /\ retired = <<>>
    /\ env = <<>>
    /\ req = NoRequests
    /\ rt = NoFeed
    /\ st = NoStore
    /\ fb = NoStore
    /\ writer = WriterIdle
    /\ reader = ReaderIdle

SelectLevel(visibleDataCount) ==
    LET m == selectLevel(controller, visibleDataCount)
    IN  /\ controller' = m
        /\ lastOp' = [op |-> "selectLevel", arg |-> visibleDataCount,
                      before |-> controller.currentLevelId,
                      result |-> m.currentLevelId,
                      prev |-> [op |-> lastOp.op, arg |-> lastOp.arg,
                                before |-> lastOp.before, result |-> lastOp.result]]
        /\ UNCHANGED <<st, fb, writer, reader, bridge, worker, retired, env, req, rt>>

LODNext == \E visibleDataCount \in VisibleCounts : SelectLevel(visibleDataCount)

SpecLOD == LODInit /\ [][LODNext]_vars

\* visibleCount lies outside the hysteresis band of every threshold:
\* |visibleCount - minVisibleCount_j| > h for every level j >= 1
OutsideEveryBand ==
    \A j \in 1..(Len(controller.levels) - 1) :
        100 * Abs(lastOp.arg - controller.levels[j + 1]) > controller.hysteresis * lastOp.arg

\* the largest level id whose minVisibleCount <= visibleCount
LargestLevelWithin(visibleCount) ==
    MaxOf({i \in 0..(Len(controller.levels) - 1) : controller.levels[i + 1] <= visibleCount})

\* C32: selectLevel(visibleCount) picks the largest level id whose
\* minVisibleCount <= visibleCount whenever visibleCount lies outside the
\* hysteresis band of every threshold, whatever the current level is.
C32_LargestLevel ==
    (lastOp.op = "selectLevel" /\ OutsideEveryBand) =>
        lastOp.result = LargestLevelWithin(lastOp.arg)

\* C32 (amended): with autoSwitch on, selectLevel(visibleCount) picks the largest
\* level id whose minVisibleCount <= visibleCount whenever visibleCount lies
\* outside the hysteresis band of every threshold, whatever the current level
\* is; with autoSwitch off it returns the current level.
C32_LargestLevelWhenAutoSwitch ==
    lastOp.op = "selectLevel" =>
        /\ (controller.autoSwitch /\ OutsideEveryBand) =>
               lastOp.result = LargestLevelWithin(lastOp.arg)
        /\ ~controller.autoSwitch => lastOp.result = lastOp.before

\* a call outside every band that comes down two levels
C32_Witness ==
    /\ lastOp.op = "selectLevel"
    /\ controller.autoSwitch
    /\ controller.hysteresis = 10
    /\ OutsideEveryBand
    /\ lastOp.before = 3
    /\ lastOp.result = 1
    /\ LargestLevelWithin(lastOp.arg) = 1

\* C33: selectLevel moves to a higher level i only if
\* visibleCount >= minVisibleCount_i + h, moves to a lower level only if
\* visibleCount <= minVisibleCount_current - h, and a second call with the same
\* visibleCount returns the level the first call returned.
C33_NoOscillation ==
    lastOp.op = "selectLevel" =>
        LET v == lastOp.arg
            h == controller.hysteresis * v
        IN  /\ lastOp.result > lastOp.before =>
                   100 * v >= 100 * controller.levels[lastOp.result + 1] + h
            /\ lastOp.result < lastOp.before =>
                   100 * v <= 100 * controller.levels[lastOp.before + 1] - h
            /\ (lastOp.prev.op = "selectLevel" /\ lastOp.prev.arg = v) =>
                   lastOp.result = lastOp.prev.result

\* a call that moved up inside no band's reach, then the same call again
C33_Witness ==
    /\ lastOp.op = "selectLevel"
    /\ lastOp.prev.op = "selectLevel"
    /\ lastOp.prev.arg = lastOp.arg
    /\ controller.hysteresis = 10
    /\ lastOp.prev.before = 0
    /\ lastOp.prev.result = 2
    /\ lastOp.result = 2

(***************************************************************************)
(* FrustumCuller.cull (src/src/chart/optimization/FrustumCuller.ts:53-106)  *)
(* with the two binary searches it calls (src/unnamed/part_018:230-263).    *)
(* Only the times of the bars matter to it; indices are 0-based.            *)
(***************************************************************************)
MaxCullBars == 6

\* the loop of lowerBound: the first index whose entry is >= value
RECURSIVE LowerBoundLoop(_, _, _, _)
LowerBoundLoop(arr, value, left, right) ==
    IF left >= right THEN left
    ELSE LET mid == (left + right) \div 2
         IN  IF arr[mid + 1] < value THEN LowerBoundLoop(arr, value, mid + 1, right)
             ELSE LowerBoundLoop(arr, value, left, mid)

lowerBound(arr, value) == LowerBoundLoop(arr, value, 0, Len(arr))

\* the loop of upperBound: the first index whose entry is > value
RECURSIVE UpperBoundLoop(_, _, _, _)
UpperBoundLoop(arr, value, left, right) ==
    IF left >= right THEN left
    ELSE LET mid == (left + right) \div 2
         IN  IF arr[mid + 1] <= value THEN UpperBoundLoop(arr, value, mid + 1, right)
             ELSE UpperBoundLoop(arr, value, left, mid)

upperBound(arr, value) == UpperBoundLoop(arr, value, 0, Len(arr))

\* the range grown to minCount: half of what is missing on the left, the rest
\* on the right, each side stopped at the end of the data
grownToMinCount(range, totalCount, minCount) ==
    LET diff     == minCount - (range.endIndex - range.startIndex)
        halfDiff == diff \div 2
    IN  IF diff <= 0 THEN range
        ELSE [startIndex |-> Max(0, range.startIndex - halfDiff),
              endIndex   |-> Min(totalCount, range.endIndex + (diff - halfDiff))]

\* the range cut to maxCount around its center
cutToMaxCount(range, totalCount, maxCount) ==
    LET center     == (range.startIndex + range.endIndex) \div 2
        startIndex == Max(0, center - (maxCount \div 2))
    IN  IF range.endIndex - range.startIndex <= maxCount THEN range
        ELSE [startIndex |-> startIndex,
              endIndex   |-> Min(totalCount, startIndex + maxCount)]

cull(options, times, timeRange) ==
    LET totalCount == Len(times)
        padded     == [startIndex |-> Max(0, lowerBound(times, timeRange.from)
                                                 - options.padding),
                       endIndex   |-> Min(totalCount, upperBound(times, timeRange.to)
                                                          + options.padding)]
        range      == cutToMaxCount(grownToMinCount(padded, totalCount, options.minCount),
                                    totalCount, options.maxCount)
    IN  IF totalCount = 0
        THEN [startIndex |-> 0, endIndex |-> 0, visibleCount |-> 0, totalCount |-> 0]
        ELSE [startIndex |-> range.startIndex, endIndex |-> range.endIndex,
              visibleCount |-> range.endIndex - range.startIndex,
              totalCount |-> totalCount]

\* time-sorted data: consecutive times, or every time twice
CullData ==
    {[i \in 1..n |-> i] : n \in 0..MaxCullBars}
        \cup {[i \in 1..n |-> (i + 1) \div 2] : n \in 2..MaxCullBars}

CullOptions ==
    {[padding |-> padding, minCount |-> minCount, maxCount |-> maxCount] :
        padding \in 0..1, minCount \in {1, 3}, maxCount \in {3, 4}}

CullInit ==
    /\ \E times \in CullData, options \in CullOptions :
          lastOp = [op |-> "new", data |-> times, options |-> options,
                    arg |-> <<>>, result |-> <<>>]
    /\ NoController
    /\ env = <<>>
    /\ req = NoRequests
    /\ rt = NoFeed
    /\ st = NoStore
    /\ fb = NoStore
    /\ writer = WriterIdle
    /\ reader = ReaderIdle

Cull(from, to) ==
    /\ from <= to
    /\ lastOp' = [lastOp EXCEPT !.op = "cull", !.arg = [from |-> from, to |-> to],
                                !.result = cull(lastOp.options, lastOp.data,
                                                [from |-> from, to |-> to])]
    /\ UNCHANGED notLastOp

CullNext == \E from \in 0..(MaxCullBars + 1), to \in 0..(MaxCullBars + 1) : Cull(from, to)

SpecCull == CullInit /\ [][CullNext]_vars

\* C34: for time-sorted data of at least minCount bars and a time range with
\* from <= to, cull returns 0 <= startIndex <= endIndex <= totalCount with
\* minCount <= endIndex - startIndex <= maxCount, wherever in the data the
\* range lies.
C34_CullCountClamped ==
    (lastOp.op = "cull" /\ Len(lastOp.data) >= lastOp.options.minCount) =>
        LET r == lastOp.result
        IN  /\ 0 <= r.startIndex
            /\ r.startIndex <= r.endIndex
            /\ r.endIndex <= Len(lastOp.data)
            /\ lastOp.options.minCount <= r.endIndex - r.startIndex
            /\ r.endIndex - r.startIndex <= lastOp.options.maxCount

(***************************************************************************)
(* Errors and late responses at the compute bridge, in SpecRequests.  The   *)
(* worker there has started, so the bridge's state is "error" only after    *)
(* handleMessage took an `error` message that answers no pending request.   *)
(***************************************************************************)
\* the step is a call of sendRequest
SendStep == req'.requestIdCounter = req.requestIdCounter + 1

\* the step is the bridge's onmessage for the event at the head of the
\* compute worker's outbox
DispatchStep ==
    /\ bridge["compute"].worker
    /\ worker["compute"].outbox # <<>>
    /\ worker'["compute"].outbox = Tail(worker["compute"].outbox)
    /\ ~DestroyStep

\* that event answers a request that is settled already
LateResponse ==
    LET event == Head(worker["compute"].outbox)
    IN  /\ HasId(event)
        /\ event.id \in Issued
        /\ event.id \notin req.pendingRequests

StoreMutated == st'.count # st.count \/ st'.head # st.head \/ st'.data # st.data

\* C37: every store operation that changes count, head or payload - setData,
\* appendData through the growable path or the ring path, updateLastCandle,
\* clear - sends a data-change event to the registered listeners.
C37_MutationNotifies == [][StoreMutated => st'.event # "none"]_vars

(***************************************************************************)
(* Data given before the workers are ready.  The chart's user has called    *)
(* setData(arg) before init() (arg is lastOp.arg, <<>> for no call); init() *)
(* is at its last await: the render bridge is ready and its worker has      *)
(* handled `init`, the compute worker has handled `init` and its `ready`    *)
(* waits in its outbox.  The continuation of init() and the later calls     *)
(* are the actions of the chart.                                            *)
(***************************************************************************)
EarlyInit ==
    /\ \E supportsSharedArrayBuffer \in BOOLEAN, data \in LinkedData :
          LET new == SharedDataManager([initialCapacity |-> ChartInitialCapacity,
                                        maxCapacity |-> ChartMaxCapacity,
                                        ringBufferMode |-> FALSE],
                                       supportsSharedArrayBuffer)
              s   == IF data = <<>> THEN new ELSE setData(new, data)
          IN  /\ st = s
              /\ retired = IF data # <<>> /\ s.allocated THEN <<new.data>> ELSE <<>>
              /\ lastOp = [op |-> "new", arg |-> data]
    /\ env = [offscreen |-> TRUE, webgl2 |-> TRUE]
    /\ controller = [pc |-> "awaitCompute", sharedBuffer |-> getSharedBuffer,
                     isInitialized |-> FALSE, emitted |-> {},
                     canvasSets |-> 1, workersCreated |-> Cardinality(Workers),
                     timeScale |-> NewTimeScale, priceScale |-> NewPriceScale,
                     sent |-> <<>>]
    /\ bridge = [b \in Workers |->
                    [exists |-> TRUE, worker |-> TRUE,
                     state |-> IF b = "render" THEN "ready" ELSE "initializing"]]
    /\ worker = [w \in Workers |->
                    [FreshWorker EXCEPT !.spawned = TRUE, !.booted = TRUE,
                                        !.isInitialized = TRUE,
                                        !.sharedData = getSharedBuffer,
                                        !.outbox = IF w = "compute"
                                                   THEN <<[type |-> "ready"]>> ELSE <<>>]]
    /\ req = NoRequests
    /\ rt = NoFeed
    /\ fb = NoStore
    /\ writer = WriterIdle
    /\ reader = ReaderIdle

EarlyNext ==
    \/ \E data \in ChartArgs : SyncSetData(data)
    \/ \E candles \in ChartArgs : SyncAppendData(candles)
    \/ \E candle \in Candles : SyncUpdateLastCandle(candle)
    \/ ChartDestroy
    \/ \E w \in Workers : WorkerRun(w)
    \/ BridgeDispatch("compute")

SpecEarly == EarlyInit /\ [][EarlyNext]_vars

\* the worker threads run and the event loop delivers the workers' events; the
\* chart's user is under no obligation
FairEarly ==
    /\ SpecEarly
    /\ WF_vars(\E w \in Workers : WorkerRun(w))
    /\ WF_vars(BridgeDispatch("compute"))

\* the data of the setData call made before init() is what the caller gave last
EarlyDataPending == lastOp.op = "new" /\ lastOp.arg # <<>>

MaxPointerEvents == 4
\* DEFAULT_OPTIONS.width and .height
DefaultWidth == 800
DefaultHeight == 600

PointerXs == {100, 300, 500}
PointerYs == {60, 300, 450}
DragTimeRanges == {<<4000, 8000>>, <<0, 12000>>}
DragPriceRanges == {<<140, 160>>, <<100, 200>>}

\* TimeScale.pixelToTime
pixelToTime(t, width, pixel) ==
    RatPlus(t.visibleMinTime,
            RatTimes(Reduce(Ratio(pixel, width)),
                     RatMinus(t.visibleMaxTime, t.visibleMinTime)))

\* PriceScale.pixelToPrice, logScale off
pixelToPrice(p, height, inverted, pixel) ==
    LET normalized == Reduce(Ratio(pixel, height))
        n == IF inverted THEN normalized ELSE RatMinus(Whole(1), normalized)
    IN  RatPlus(p.visibleMinPrice,
                RatTimes(n, RatMinus(p.visibleMaxPrice, p.visibleMinPrice)))

\* TimeScale.panByPixels before the clampVisibleRange of its pan
TimeScale_pannedByPixels(t, width, deltaPixel) ==
    LET deltaTime == RatTimes(Reduce(Ratio(deltaPixel, width)),
                              RatMinus(t.visibleMaxTime, t.visibleMinTime))
    IN  [t EXCEPT !.visibleMinTime = RatPlus(@, deltaTime),
                  !.visibleMaxTime = RatPlus(@, deltaTime)]

TimeScale_panByPixels(t, width, deltaPixel) ==
    TimeScale_clampVisibleRange(TimeScale_pannedByPixels(t, width, deltaPixel))

\* PriceScale.panByPixels before the clampVisibleRange of its pan
PriceScale_pannedByPixels(p, height, inverted, deltaPixel) ==
    LET deltaPrice == RatTimes(Reduce(Ratio(deltaPixel, height)),
                               RatMinus(p.visibleMaxPrice, p.visibleMinPrice))
        by == IF inverted THEN deltaPrice ELSE RatMinus(Whole(0), deltaPrice)
    IN  [p EXCEPT !.visibleMinPrice = RatPlus(@, by),
                  !.visibleMaxPrice = RatPlus(@, by)]

PriceScale_panByPixels(p, height, inverted, deltaPixel) ==
    PriceScale_clampVisibleRange(PriceScale_pannedByPixels(p, height, inverted, deltaPixel))

NoGrab == [x |-> 0, y |-> 0, time |-> Whole(0), price |-> Whole(0)]

DragInit ==
    /\ \E tv \in DragTimeRanges, pv \in DragPriceRanges, inverted \in BOOLEAN :
          controller =
              [pc |-> "drag",
               timeScale |-> [NewTimeScale EXCEPT !.minTime = 0, !.maxTime = 12000,
                                                  !.visibleMinTime = Whole(tv[1]),
                                                  !.visibleMaxTime = Whole(tv[2])],
               priceScale |-> [NewPriceScale EXCEPT !.minPrice = 100, !.maxPrice = 200,
                                                    !.visibleMinPrice = Whole(pv[1]),
                                                    !.visibleMaxPrice = Whole(pv[2])],
               width |-> DefaultWidth, height |-> DefaultHeight, inverted |-> inverted,
               isPanning |-> FALSE, lastPointerX |-> 0, lastPointerY |-> 0]
    /\ lastOp = [op |-> "new", x |-> 0, y |-> 0, grabbed |-> NoGrab, clamped |-> FALSE,
                 n |-> 0]
    /\ bridge = <<>>
    /\ worker = <<>>
    /\ retired = <<>>
    /\ env = <<>>
    /\ req = NoRequests
    /\ rt = NoFeed
    /\ st = NoStore
    /\ fb = NoStore
    /\ writer = WriterIdle
    /\ reader = ReaderIdle

handlePointerDown(c, clientX, clientY) ==
    [c EXCEPT !.isPanning = TRUE, !.lastPointerX = clientX, !.lastPointerY = clientY]

\* the scales before the clampVisibleRange calls of a pointer move
pointerMoved(c, clientX, clientY) ==
    [c EXCEPT !.timeScale = TimeScale_pannedByPixels(@, c.width,
                                                     -(clientX - c.lastPointerX)),
              !.priceScale = PriceScale_pannedByPixels(@, c.height, c.inverted,
                                                       clientY - c.lastPointerY)]

\* the scales of ChartController.handlePointerMove while panning
pointerMove(c, clientX, clientY) ==
    [c EXCEPT !.timeScale = TimeScale_panByPixels(@, c.width,
                                                  -(clientX - c.lastPointerX)),
              !.priceScale = PriceScale_panByPixels(@, c.height, c.inverted,
                                                    clientY - c.lastPointerY)]

handlePointerMove(c, clientX, clientY) ==
    IF c.isPanning
    THEN [pointerMove(c, clientX, clientY) EXCEPT !.lastPointerX = clientX,
                                                  !.lastPointerY = clientY]
    ELSE c

handlePointerUp(c) == [c EXCEPT !.isPanning = FALSE]

PointerDown(clientX, clientY) ==
    /\ lastOp.n < MaxPointerEvents
    /\ controller' = handlePointerDown(controller, clientX, clientY)
    /\ lastOp' = [op |-> "pointerdown", x |-> clientX, y |-> clientY,
                  grabbed |-> [x |-> clientX, y |-> clientY,
                               time |-> pixelToTime(controller.timeScale,
                                                    controller.width, clientX),
                               price |-> pixelToPrice(controller.priceScale,
                                                      controller.height,
                                                      controller.inverted, clientY)],
                  clamped |-> FALSE, n |-> lastOp.n + 1]
    /\ UNCHANGED notScales

PointerMove(clientX, clientY) ==
    /\ lastOp.n < MaxPointerEvents
    /\ controller' = handlePointerMove(controller, clientX, clientY)
    /\ lastOp' = [lastOp EXCEPT
                    !.op = "pointermove", !.x = clientX, !.y = clientY,
                    !.clamped = @ \/ (/\ controller.isPanning
                                      /\ LET raw == pointerMoved(controller, clientX, clientY)
                                         IN  \/ TimeVisible(controller'.timeScale)
                                                  # TimeVisible(raw.timeScale)
                                             \/ PriceVisible(controller'.priceScale)
                                                  # PriceVisible(raw.priceScale)),
                    !.n = @ + 1]
    /\ UNCHANGED notScales

PointerUp ==
    /\ lastOp.n < MaxPointerEvents
    /\ controller' = handlePointerUp(controller)
    /\ lastOp' = [lastOp EXCEPT !.op = "pointerup", !.n = @ + 1]
    /\ UNCHANGED notScales

DragNext ==
    \/ \E x \in PointerXs, y \in PointerYs : PointerDown(x, y)
    \/ \E x \in PointerXs, y \in PointerYs : PointerMove(x, y)
    \/ PointerUp

SpecDrag == DragInit /\ [][DragNext]_vars

\* a pointer move of a drag none of whose pans was clamped
UnclampedDragMove ==
    lastOp.op = "pointermove" /\ controller.isPanning /\ ~lastOp.clamped

\* C39: while the user drags with no clamping in effect, after every
\* pointer-move event the time and the price that were under the pointer when
\* the drag started are still under the pointer.
C39_DragFollowsPointer ==
    UnclampedDragMove =>
        /\ RatEq(pixelToTime(controller.timeScale, controller.width, lastOp.x),
                 lastOp.grabbed.time)
        /\ RatEq(pixelToPrice(controller.priceScale, controller.height,
                              controller.inverted, lastOp.y),
                 lastOp.grabbed.price)

(***************************************************************************)
(* The update timestamp of the SharedDataManager (src/unnamed/part_009     *)
(* 327-348).  Date.now() is a number above 32 bits, written here as        *)
(* high * 2^32 + upper * 2^16 + lower with 0 <= upper, lower < 2^16; the   *)
(* header words are Int32Array elements, 32-bit signed integers.  In       *)
(* SpecTimestamp env is the clock, st the store's header and lastOp the    *)
(* last mutation with the Date.now() it read.                              *)
(***************************************************************************)
HalfWord == 2 ^ 16

\* Date.now() at 0, at 1, around bit 31 of the low word, at the low word's
\* end, in the first 2^32 ms, the next, and in 2026 (high = 417)
ClockHighs == {0, 1, 417}
ClockUppers == {0, 32767, 32768, 65535}
ClockLowers == {0, 1, 65535}

Clocks == [high : ClockHighs, upper : ClockUppers, lower : ClockLowers]

Earlier64(a, b) ==
    \/ a.high < b.high
    \/ a.high = b.high /\ a.upper < b.upper
    \/ a.high = b.high /\ a.upper = b.upper /\ a.lower < b.lower

\* ToInt32 of a number: its low 32 bits read as a signed integer, which is the
\* value of `now & 0xffffffff`
ToInt32(now) ==
    IF now.upper >= HalfWord \div 2
    THEN (now.upper - HalfWord) * HalfWord + now.lower
    ELSE now.upper * HalfWord + now.lower

\* high * 0x100000000 + low
recombined(high, low) ==
    IF low >= 0
    THEN [high |-> high, upper |-> low \div HalfWord, lower |-> low % HalfWord]
    ELSE LET quarter == (HalfWord \div 4) * HalfWord
             l == (low + quarter) + quarter
         IN  [high |-> high - 1, upper |-> (l \div HalfWord) + (HalfWord \div 2),
              lower |-> l % HalfWord]

\* SharedDataManager.updateTimestamp
updateTimestamp(s, now) ==
    IF ~s.metaView THEN s
    ELSE [s EXCEPT !.lastUpdateLow = ToInt32(now), !.lastUpdateHigh = now.high]

\* SharedDataManager.getLastUpdateTimestamp
getLastUpdateTimestamp(s) ==
    IF ~s.metaView THEN [high |-> 0, upper |-> 0, lower |-> 0]
    ELSE recombined(s.lastUpdateHigh, s.lastUpdateLow)

TimestampInit ==
    /\ \E supportsSharedArrayBuffer \in BOOLEAN :
          st = [metaView |-> supportsSharedArrayBuffer,
                lastUpdateLow |-> 0, lastUpdateHigh |-> 0]
    /\ \E now \in Clocks : env = [now |-> now]
    /\ lastOp = [op |-> "new", now |-> [high |-> 0, upper |-> 0, lower |-> 0]]
    /\ controller = [pc |-> "absent"]
    /\ bridge = <<>>
    /\ worker = <<>>
    /\ retired = <<>>
    /\ req = NoRequests
    /\ rt = NoFeed
    /\ fb = NoStore
    /\ writer = WriterIdle
    /\ reader = ReaderIdle

notClock == <<fb, writer, reader, controller, bridge, worker, retired, req, rt>>

\* time passes
ClockTick(now) ==
    /\ Earlier64(env.now, now)
    /\ env' = [now |-> now]
    /\ UNCHANGED <<st, lastOp>>
    /\ UNCHANGED notClock

\* setData, appendData, updateLastCandle or clear: each ends in updateTimestamp
Mutation ==
    /\ st' = updateTimestamp(st, env.now)
    /\ lastOp' = [op |-> "mutation", now |-> env.now]
    /\ UNCHANGED env
    /\ UNCHANGED notClock

TimestampNext ==
    \/ \E now \in Clocks : ClockTick(now)
    \/ Mutation

SpecTimestamp == TimestampInit /\ [][TimestampNext]_vars

\* C40: getLastUpdateTimestamp() returns exactly the timestamp stored by the
\* most recent mutation: the split into the two signed 32-bit header words
\* and the recombination lose nothing, for every non-negative timestamp,
\* bit 31 of the low word set or not.
C40_TimestampLossless ==
    (lastOp.op = "mutation" /\ st.metaView) => getLastUpdateTimestamp(st) = lastOp.now

====
